---- MODULE Spec2Model ----
(***************************************************************************)
(* The file-based knowledge store of smart-codebase: the Knowledge Writer  *)
(* (writeModuleSkill, updateSkillIndex, updateGlobalIndex), the Usage      *)
(* Tracker (trackSkillAccess), the two sentinel-file locks they use, and   *)
(* the cleanup command (findEligibleSkills, performCleanup).               *)
(* Every await of the source is one step of a task; tasks of one process   *)
(* share the process id that is written into a sentinel.                   *)
(***************************************************************************)
EXTENDS Integers, Sequences, FiniteSets, TLC

\* ---------------------------------------------------------------- bounds
NumTasks == 3
MaxOps == 3
MaxTicks == 3
TickMs == 3000
MaxCount == 1
MaxDays == 2

\* ------------------------------------------------------ program constants
timeoutMs == 5000

\* const DAY_MS = 24 * 60 * 60 * 1000
DAY_MS == 24 * 60 * 60 * 1000

\* the thresholds of cleanup when the configuration gives none
DefaultThresholds ==
  [minAgeDays |-> 60, minAccessCount |-> 5, maxInactiveDays |-> 60]

\* an acquireLock that does not wait before it re-reads the sentinel
sleepVerifyNone == 10 - 10

\* sleep(10) between the write of the sentinel and its verification
sleepVerifyMs == 10
None == -1

Tasks == 1..NumTasks

\* process.pid of the process a task runs in: tasks 1 and 2 share a process
Pid(t) == (t + 1) \div 2

\* ------------------------------------------------------------ file names
ModulesLock == "modules/.lock"
UsageLock == "modules/.usage-lock"
SkillIndexLock == "skills/.lock"
GlobalIndexLock == ".knowledge.lock"
LockFiles == {ModulesLock, UsageLock, SkillIndexLock, GlobalIndexLock}
IndexKinds == {"skill", "global"}

\* ------------------------------------------------------------- documents
\* A description is free text; "d3" stands for a text that itself holds the
\* words "created_at: 1970-01-01T00:00:00.000Z".
Descriptions == {"d1", "d3"}
Bodies == {"b1", "b2"}
DescToken(d) == IF d = "d3" THEN 0 ELSE None

\* The name of the module is the name of its index entry (see Names below).
\* extra is a frontmatter key other than name, description and usage, such
\* as "tags: x" in a hand-edited document; "" when there is none.
ModuleName == <<"a">>

NoDoc ==
  [exists |-> FALSE, fm |-> FALSE, name |-> <<>>, description |-> "",
   extra |-> "", usage |-> FALSE, created_at |-> None, last_updated |-> None,
   access_count |-> None, last_accessed |-> None, body |-> ""]

\* a document with frontmatter and a usage block, as left by earlier runs
UsedDoc(c) ==
  [exists |-> TRUE, fm |-> TRUE, name |-> ModuleName, description |-> "d1",
   extra |-> "", usage |-> TRUE, created_at |-> 1, last_updated |-> 2,
   access_count |-> c, last_accessed |-> IF c = None THEN None ELSE 2,
   body |-> "b0"]

\* a hand-authored document: no frontmatter block
PlainDoc == [NoDoc EXCEPT !.exists = TRUE, !.body = "b0"]

\* a document with name and description in its frontmatter and no usage block
FmDoc ==
  [UsedDoc(None) EXCEPT !.usage = FALSE, !.created_at = None,
                        !.last_updated = None]

\* a document whose frontmatter has one more key
TaggedDoc == [UsedDoc(1) EXCEPT !.extra = "tags"]

\* toSkillName(modulePath) of a second module of the same project
OtherModule == <<"b">>
Modules == {ModuleName, OtherModule}

Skills == [name : Modules, description : Descriptions, body : Bodies]
NoSkill == [name |-> <<>>, description |-> "", body |-> ""]

\* ---------------------------------------------------------- index entries
\* An entry name is a sequence of characters, so that "a" is a proper prefix
\* of "au" the way src-auth is one of src-auth-utils.
Names == {<<"a">>, <<"a", "u">>, <<"b">>}
Entries == [name : Names, description : {"d1", "d2"}, location : {"l1"}]
NoEntry == [name |-> <<>>, description |-> "", location |-> ""]
NoIndex == [exists |-> FALSE, entries |-> <<>>]

NoLock == [exists |-> FALSE, pid |-> 0, by |-> 0]

\* --------------------------------------------------------------- cleanup
\* the thresholds a configuration may give
Thresholds ==
  [minAgeDays : 0..MaxDays, minAccessCount : 0..(MaxCount + 1),
   maxInactiveDays : 0..MaxDays] \cup {DefaultThresholds}

\* frontmatter.name of a document without a frontmatter block
UnknownName == <<"unknown">>

\* the clock when the cleanup scenarios start
ScanTime == (MaxDays + 2) * DAY_MS

\* timestamps a whole number of days, or that and half a day, before t
Stamps(t) ==
  {t - d * DAY_MS - h * (DAY_MS \div 2) : d \in 0..MaxDays, h \in {0, 1}}

\* module documents as earlier runs and hand edits can have left them
StoredDocs(t) ==
  {[UsedDoc(c) EXCEPT !.created_at = ca, !.last_accessed = la] :
     c \in {None} \cup 0..(MaxCount + 1),
     ca \in {None} \cup Stamps(t), la \in {None} \cup Stamps(t)}
  \cup {FmDoc, PlainDoc}

\* the per-project index with the entry of the module and one of a module
\* whose name starts with the same characters
StoredIndex ==
  [exists |-> TRUE,
   entries |-> <<[name |-> ModuleName, description |-> "d1", location |-> "l1"],
                 [name |-> <<"a", "u">>, description |-> "d1", location |-> "l1"]>>]

NoThresholds == [minAgeDays |-> 0, minAccessCount |-> 0, maxInactiveDays |-> 0]

\* the cleanup command: its position and locals
IdleCleanup ==
  [pc |-> "idle", confirm |-> FALSE, thresholds |-> NoThresholds, now |-> 0,
   files |-> 0, seen |-> NoDoc, eligible |-> <<>>, deleted |-> <<>>,
   ibuf |-> NoIndex, res |-> "none"]

IdleTask ==
  [pc |-> "idle", op |-> "none", start |-> 0, buf |-> NoDoc, ibuf |-> NoIndex,
   skill |-> NoSkill, entry |-> NoEntry, kind |-> "none", found |-> FALSE,
   err |-> "none", acq |-> FALSE, rel |-> "none", res |-> "none",
   wrote |-> FALSE, raised |-> FALSE]

VARIABLES
  now,        \* Date.now(), in ms
  doc,        \* modules/<skill>.md
  sibling,    \* modules/<skill of another module>.md
  index,      \* SKILL.md and KNOWLEDGE.md
  lock,       \* the sentinel files
  task,       \* each task's position and locals
  active,     \* the tasks that issue calls
  allowed,    \* the operations they may call
  faulty,     \* whether the filesystem may fail an operation
  descs,      \* the descriptions the callers pass
  names,      \* the entry names the callers pass
  mods,       \* the modules the callers write
  left,       \* calls the callers still make
  cleanup,    \* the cleanup command
  calc,       \* a function of the repository applied to an input
  ext,        \* the hooks of one session: maps, timers, handlers in flight
  hist        \* history of the calls, read by the properties only

vars == <<now, doc, sibling, index, lock, task, active, allowed, faulty, descs,
          names, mods, left, cleanup, calc, ext, hist>>
\* what no operation on the store changes
scenario == <<allowed, faulty, descs, names, mods, calc, ext>>
\* what no computation beside the store changes
store == <<now, doc, sibling, index, lock, task, active, allowed, faulty, descs,
           names, mods, left, cleanup, hist>>
params == <<scenario, cleanup>>
env == <<active, params>>

\* what the last preview run listed, and from which scan
NoPreview ==
  [set |-> FALSE, eligible |-> <<>>, thresholds |-> NoThresholds, now |-> 0,
   seen |-> NoDoc]

\* deleted: cleanup has removed the document; fresh: the tasks whose
\* writeModuleSkill for the module started after the last removal
InitHist(d) ==
  [doc0 |-> d, tracks |-> 0, writes |-> 0, failed |-> 0,
   preview |-> NoPreview, deleted |-> FALSE, fresh |-> {},
   firstCreated |-> None, minCreated |-> None,
   lastBody |-> "", lastWrite |-> NoDoc, lastWriteStart |-> 0,
   passed |-> [k \in IndexKinds |-> [n \in Names |-> NoEntry]]]

\* the outcomes an I/O operation can have: TRUE is a failure
Fails == IF faulty THEN {FALSE, TRUE} ELSE {FALSE}

TimedOut(t) == now - task[t].start > timeoutMs

\* the time up to which the clock of the model runs
Horizon == MaxTicks * TickMs

\* the clock after sleep(ms)
afterSleep(ms) == IF now < Horizon THEN now + ms ELSE now

\* ------------------------------------------------------ Frontmatter codec
\* content.match(/^---\n([\s\S]*?)\n---/) without the test for a match
hasFrontmatterAlways(d) == TRUE

\* content.match(/^---\n([\s\S]*?)\n---/): the text starts with a block
hasFrontmatter(d) == d.fm

\* parseFrontmatter: the record of the frontmatter block, every top-level
\* key of it. access_count is parseInt(value, 10) || 0 when the key is
\* present, undefined otherwise.
parseFrontmatter(d) ==
  [name |-> d.name, description |-> d.description, extra |-> d.extra,
   usage |-> d.usage,
   created_at |-> IF d.usage THEN d.created_at ELSE None,
   last_updated |-> IF d.usage THEN d.last_updated ELSE None,
   access_count |-> IF d.usage THEN d.access_count ELSE None,
   last_accessed |-> IF d.usage THEN d.last_accessed ELSE None]

\* formatSkillWithFrontmatter: name, description, then the usage block with
\* each child that is defined, then the body; no other key is written
formatSkillWithFrontmatter(f, body) ==
  [exists |-> TRUE, fm |-> TRUE, name |-> f.name, description |-> f.description,
   extra |-> "", usage |-> f.usage,
   created_at |-> IF f.usage THEN f.created_at ELSE None,
   last_updated |-> IF f.usage THEN f.last_updated ELSE None,
   access_count |-> IF f.usage THEN f.access_count ELSE None,
   last_accessed |-> IF f.usage THEN f.last_accessed ELSE None,
   body |-> body]

\* usage.access_count + 1 without the default for an absent counter
bumpAccessCountNoDefault(c) == IF c = None THEN None ELSE c + 1

\* usage.access_count = (usage.access_count || 0) + 1
bumpAccessCount(c) == (IF c = None THEN 0 ELSE c) + 1

\* trackSkillAccess, from the parsed record to the text it writes
trackedContent(d, time) ==
  LET f == parseFrontmatter(d)
      g == [f EXCEPT !.usage = TRUE,
                     !.access_count = bumpAccessCount(f.access_count),
                     !.last_accessed = time]
  IN formatSkillWithFrontmatter(g, d.body)

\* existingContent.match(/created_at:\s*([^\s]+)/): the first place in the
\* text where the words occur. The description line comes before the usage
\* block; the body comes last and holds no such words in this model.
createdMatch(d) ==
  IF ~d.exists THEN None
  ELSE IF d.fm /\ DescToken(d.description) # None THEN DescToken(d.description)
  ELSE IF d.fm /\ d.usage THEN d.created_at
  ELSE None

\* the created_at that formatSkillContent writes
createdAtFor(existing, time) ==
  IF createdMatch(existing) # None THEN createdMatch(existing) ELSE time

\* formatSkillContent: name, description, usage with created_at and
\* last_updated only, then the sections
formatSkillContent(skill, existing, time) ==
  [exists |-> TRUE, fm |-> TRUE, name |-> skill.name,
   description |-> skill.description, extra |-> "", usage |-> TRUE,
   created_at |-> createdAtFor(existing, time), last_updated |-> time,
   access_count |-> None, last_accessed |-> None, body |-> skill.body]

\* ------------------------------------------------------------ index text
IsPrefix(p, n) == Len(p) <= Len(n) /\ SubSeq(n, 1, Len(p)) = p

\* content.includes(`### ${entry.name}`): some heading line starts with it
includesMarker(entries, n) ==
  \E i \in 1..Len(entries) : IsPrefix(n, entries[i].name)

\* content.replace(entryRegex, formatIndexEntry(entry)) with the regex
\* ### <name>[\s\S]*?(?=\n### |$) and flag g: every block whose heading
\* starts with "### <name>" is replaced, up to the next heading
replaceEntries(entries, e) ==
  [i \in 1..Len(entries) |->
     IF IsPrefix(e.name, entries[i].name) THEN e ELSE entries[i]]

\* lines 233-242 (126-135 for the global index) on the entries of the text
updatedEntries(entries, e) ==
  IF includesMarker(entries, e.name) THEN replaceEntries(entries, e)
  ELSE Append(entries, e)

\* the index text after the template is seeded when the file is absent
updatedIndex(content, e) ==
  [exists |-> TRUE,
   entries |-> updatedEntries(IF content.exists THEN content.entries ELSE <<>>, e)]

\* ------------------------------------------------------------- task steps
SetTask(t, tk) == task' = [task EXCEPT ![t] = tk]

\* the results that are errors: the lock timeout, a failed read of the
\* document by trackSkillAccess, any other failed I/O
Errors == {"timeout", "readerror", "ioerror"}

\* a try/catch that lets the error through to the caller
raisesUncaught(op, result) == result \in Errors

\* whether the error reaches the caller: trackSkillAccess catches and logs
\* every error, the Knowledge Writer's functions have no catch
raises(op, result) == op # "track" /\ result \in Errors

\* the call of task t ends: it returns (ok, noop) or fails with an error
Finish(t, tk, result) ==
  /\ SetTask(t, [tk EXCEPT !.pc = "idle", !.res = result, !.buf = NoDoc,
                           !.ibuf = NoIndex, !.found = FALSE,
                           !.raised = raises(tk.op, result)])
  /\ hist' = [hist EXCEPT
       !.failed = @ + (IF result \in Errors THEN 1 ELSE 0),
       !.passed = IF tk.op = "index" /\ result = "ok"
                  THEN [@ EXCEPT ![tk.kind][tk.entry.name] = tk.entry] ELSE @]

CanStart(t, op) ==
  /\ t \in active
  /\ op \in allowed
  /\ task[t].pc = "idle"
  /\ left > 0

\* ----------------------------------------------- Usage Tracker: the lock
\* the catch block of the tracker's acquireLock
trackerAcquireCatch(t) ==
  IF TimedOut(t) THEN Finish(t, task[t], "timeout")
  ELSE SetTask(t, [task[t] EXCEPT !.pc = "u_check"]) /\ UNCHANGED hist

\* while (true): fileExists(lockFile); timeout or sleep(50) when it exists
trackerAcquireCheck(t) ==
  /\ task[t].pc = "u_check"
  /\ IF lock[UsageLock].exists
     THEN IF TimedOut(t) THEN Finish(t, task[t], "timeout")
          ELSE UNCHANGED <<task, hist>>
     ELSE SetTask(t, [task[t] EXCEPT !.pc = "u_write"]) /\ UNCHANGED hist
  /\ UNCHANGED <<now, doc, sibling, index, lock, env, left>>

\* writeTextFile(lockFile, process.pid.toString()); sleep(10): the clock is
\* at least 10 ms further when the task goes on
trackerAcquireWrite(t) ==
  /\ task[t].pc = "u_write"
  /\ \E f \in Fails :
       IF f THEN trackerAcquireCatch(t) /\ UNCHANGED <<lock, now>>
       ELSE /\ lock' = [lock EXCEPT ![UsageLock] =
                          [exists |-> TRUE, pid |-> Pid(t), by |-> t]]
            /\ now' = afterSleep(sleepVerifyMs)
            /\ SetTask(t, [task[t] EXCEPT !.pc = "u_still"])
            /\ UNCHANGED hist
  /\ UNCHANGED <<doc, sibling, index, env, left>>

\* stillExists = fileExists(lockFile); sleep(50) and retry when it is gone
trackerAcquireStill(t) ==
  /\ task[t].pc = "u_still"
  /\ SetTask(t, [task[t] EXCEPT
       !.pc = IF lock[UsageLock].exists THEN "u_verify" ELSE "u_check"])
  /\ UNCHANGED <<now, doc, sibling, index, lock, env, left, hist>>

\* lockContent = readTextFile(lockFile); the handle when it is the own pid
trackerAcquireVerify(t) ==
  /\ task[t].pc = "u_verify"
  /\ \E f \in Fails :
       IF f \/ ~lock[UsageLock].exists THEN trackerAcquireCatch(t)
       ELSE /\ SetTask(t, IF lock[UsageLock].pid = Pid(t)
                          THEN [task[t] EXCEPT !.pc = "t_read", !.acq = TRUE]
                          ELSE [task[t] EXCEPT !.pc = "u_check"])
            /\ UNCHANGED hist
  /\ UNCHANGED <<now, doc, sibling, index, lock, env, left>>

\* releaseLock of the tracker: fileExists(lock.file)
trackerReleaseCheck(t) ==
  /\ task[t].pc = "u_rel"
  /\ IF lock[UsageLock].exists
     THEN SetTask(t, [task[t] EXCEPT !.pc = "u_remove"]) /\ UNCHANGED hist
     ELSE Finish(t, [task[t] EXCEPT !.rel = "absent"],
                 IF task[t].err = "none" THEN task[t].res ELSE task[t].err)
  /\ UNCHANGED <<now, doc, sibling, index, lock, env, left>>

\* releaseLock of the tracker: removeFile(lock.file), a failure is logged
trackerReleaseRemove(t) ==
  /\ task[t].pc = "u_remove"
  /\ \E f \in Fails :
       /\ lock' = IF f THEN lock ELSE [lock EXCEPT ![UsageLock] = NoLock]
       /\ Finish(t, [task[t] EXCEPT !.rel = IF f \/ ~lock[UsageLock].exists
                                            THEN "failed" ELSE "removed"],
                 IF task[t].err = "none" THEN task[t].res ELSE task[t].err)
  /\ UNCHANGED <<now, doc, sibling, index, env, left>>

\* ----------------------------------------------- Usage Tracker: the call
\* where the critical section of trackSkillAccess goes when it is left: the
\* finally block
trackExitSkipsRelease == "idle"
trackExit == "u_rel"

\* trackSkillAccess without the test for the file
trackSkillAccessStartNoCheck(t) ==
  /\ CanStart(t, "track")
  /\ left' = left - 1
  /\ SetTask(t, [IdleTask EXCEPT !.op = "track", !.pc = "u_check",
                                 !.start = now])
  /\ hist' = [hist EXCEPT !.tracks = @ + 1]
  /\ UNCHANGED <<now, doc, sibling, index, lock, env>>

\* trackSkillAccess: return when the file does not exist, else acquireLock
trackSkillAccessStart(t) ==
  /\ CanStart(t, "track")
  /\ left' = left - 1
  /\ IF ~doc.exists
     THEN /\ SetTask(t, [IdleTask EXCEPT !.op = "track", !.res = "noop"])
          /\ UNCHANGED hist
     ELSE /\ SetTask(t, [IdleTask EXCEPT !.op = "track", !.pc = "u_check",
                                         !.start = now])
          /\ hist' = [hist EXCEPT !.tracks = @ + 1]
  /\ UNCHANGED <<now, doc, sibling, index, lock, env>>

\* readTextFile(skillPath), the frontmatter match, the bump of the counter
\* and the new text, up to the await of the write
trackSkillAccessRead(t) ==
  /\ task[t].pc = "t_read"
  /\ \E f \in Fails :
       SetTask(t,
         IF f \/ ~doc.exists
         THEN [task[t] EXCEPT !.pc = trackExit, !.err = "readerror"]
         ELSE IF ~hasFrontmatter(doc)
         THEN [task[t] EXCEPT !.pc = trackExit, !.res = "noop"]
         ELSE [task[t] EXCEPT !.pc = "t_write",
                              !.buf = trackedContent(doc, now)])
  /\ UNCHANGED <<now, doc, sibling, index, lock, env, left, hist>>

\* writeTextFile(skillPath, updatedContent)
trackSkillAccessWrite(t) ==
  /\ task[t].pc = "t_write"
  /\ \E f \in Fails :
       /\ doc' = IF f THEN doc ELSE task[t].buf
       /\ SetTask(t, IF f THEN [task[t] EXCEPT !.pc = trackExit, !.err = "ioerror"]
                     ELSE [task[t] EXCEPT !.pc = trackExit, !.res = "ok",
                                          !.wrote = TRUE])
  /\ UNCHANGED <<now, sibling, index, lock, env, left, hist>>

\* --------------------------------------------- Knowledge Writer: the lock
\* the sentinel of the call: <skillDir>/.lock for a module document and for
\* the per-project index (two directories), <root>/.knowledge.lock
lockFileOf(tk) ==
  IF tk.op = "write" THEN ModulesLock
  ELSE IF tk.kind = "skill" THEN SkillIndexLock ELSE GlobalIndexLock

\* the first step inside the critical section
criticalEntry(tk) == IF tk.op = "write" THEN "w_exists" ELSE "i_exists"

\* where the critical sections of the Knowledge Writer go when they are
\* left: the finally block
writerExit == "k_rel"

\* an acquireLock that takes over a sentinel older than the timeout
writerAcquireCheckSteals(t) ==
  /\ task[t].pc = "k_check"
  /\ IF lock[lockFileOf(task[t])].exists /\ ~TimedOut(t)
     THEN UNCHANGED <<task, hist>>
     ELSE SetTask(t, [task[t] EXCEPT !.pc = "k_write"]) /\ UNCHANGED hist
  /\ UNCHANGED <<now, doc, sibling, index, lock, env, left>>

\* while (true): fileExists(lockFile) throws EEXIST, which is the timeout
\* error after timeoutMs and sleep(50) before
writerAcquireCheck(t) ==
  /\ task[t].pc = "k_check"
  /\ IF lock[lockFileOf(task[t])].exists
     THEN IF TimedOut(t) THEN Finish(t, task[t], "timeout")
          ELSE UNCHANGED <<task, hist>>
     ELSE SetTask(t, [task[t] EXCEPT !.pc = "k_write"]) /\ UNCHANGED hist
  /\ UNCHANGED <<now, doc, sibling, index, lock, env, left>>

\* writeTextFile(lockFile, process.pid.toString()); return { file }
writerAcquireWrite(t) ==
  /\ task[t].pc = "k_write"
  /\ \E f \in Fails :
       IF f THEN Finish(t, task[t], "ioerror") /\ UNCHANGED lock
       ELSE /\ lock' = [lock EXCEPT ![lockFileOf(task[t])] =
                          [exists |-> TRUE, pid |-> Pid(t), by |-> t]]
            /\ SetTask(t, [task[t] EXCEPT !.pc = criticalEntry(task[t]),
                                          !.acq = TRUE])
            /\ UNCHANGED hist
  /\ UNCHANGED <<now, doc, sibling, index, env, left>>

\* releaseLock of the Knowledge Writer: fileExists(lock.file)
writerReleaseCheck(t) ==
  /\ task[t].pc = "k_rel"
  /\ IF lock[lockFileOf(task[t])].exists
     THEN SetTask(t, [task[t] EXCEPT !.pc = "k_remove"]) /\ UNCHANGED hist
     ELSE Finish(t, [task[t] EXCEPT !.rel = "absent"],
                 IF task[t].err = "none" THEN task[t].res ELSE task[t].err)
  /\ UNCHANGED <<now, doc, sibling, index, lock, env, left>>

\* releaseLock of the Knowledge Writer: removeFile(lock.file), a failure is
\* logged
writerReleaseRemove(t) ==
  /\ task[t].pc = "k_remove"
  /\ \E f \in Fails :
       /\ lock' = IF f THEN lock
                  ELSE [lock EXCEPT ![lockFileOf(task[t])] = NoLock]
       /\ Finish(t, [task[t] EXCEPT
                   !.rel = IF f \/ ~lock[lockFileOf(task[t])].exists
                           THEN "failed" ELSE "removed"],
                 IF task[t].err = "none" THEN task[t].res ELSE task[t].err)
  /\ UNCHANGED <<now, doc, sibling, index, env, left>>

\* --------------------------------------- Knowledge Writer: writeModuleSkill
\* skillPath = join(skillDir, `${skillName}.md`): the document of the call
skillFile(tk) == IF tk.skill.name = ModuleName THEN doc ELSE sibling

writeModuleSkillStart(t) ==
  /\ CanStart(t, "write")
  /\ left' = left - 1
  /\ \E s \in Skills :
       /\ s.name \in mods
       /\ s.description \in descs
       /\ SetTask(t, [IdleTask EXCEPT !.op = "write", !.pc = "k_check",
                                      !.start = now, !.skill = s])
       /\ hist' = [hist EXCEPT !.fresh = IF hist.deleted /\ s.name = ModuleName
                                         THEN @ \cup {t} ELSE @ \ {t}]
  /\ UNCHANGED <<now, doc, sibling, index, lock, env>>

\* fileExists(skillPath); with no file the content is formatted from ''
writeModuleSkillExists(t) ==
  /\ task[t].pc = "w_exists"
  /\ SetTask(t, IF skillFile(task[t]).exists
                THEN [task[t] EXCEPT !.pc = "w_read", !.found = TRUE]
                ELSE [task[t] EXCEPT !.pc = "w_write",
                        !.buf = formatSkillContent(task[t].skill, NoDoc, now)])
  /\ UNCHANGED <<now, doc, sibling, index, lock, env, left, hist>>

\* existingContent = readTextFile(skillPath); formatSkillContent
writeModuleSkillRead(t) ==
  /\ task[t].pc = "w_read"
  /\ \E f \in Fails :
       SetTask(t,
         IF f \/ ~skillFile(task[t]).exists
         THEN [task[t] EXCEPT !.pc = writerExit, !.err = "ioerror"]
         ELSE [task[t] EXCEPT !.pc = "w_write",
                 !.buf = formatSkillContent(task[t].skill, skillFile(task[t]),
                                            now)])
  /\ UNCHANGED <<now, doc, sibling, index, lock, env, left, hist>>

\* writeTextFile(skillPath, content); return skillPath
writeModuleSkillWrite(t) ==
  /\ task[t].pc = "w_write"
  /\ \E f \in Fails :
       IF f
       THEN /\ SetTask(t, [task[t] EXCEPT !.pc = writerExit, !.err = "ioerror"])
            /\ UNCHANGED <<doc, sibling, hist>>
       ELSE IF task[t].skill.name # ModuleName
       THEN /\ sibling' = task[t].buf
            /\ SetTask(t, [task[t] EXCEPT !.pc = writerExit, !.res = "ok",
                                          !.wrote = TRUE])
            /\ UNCHANGED <<doc, hist>>
       ELSE /\ doc' = task[t].buf
            /\ UNCHANGED sibling
            /\ SetTask(t, [task[t] EXCEPT !.pc = writerExit, !.res = "ok",
                                          !.wrote = TRUE])
            /\ hist' = [hist EXCEPT
                 !.writes = @ + 1,
                 !.lastWrite = task[t].buf,
                 !.lastBody = task[t].skill.body,
                 !.lastWriteStart = task[t].start,
                 !.firstCreated = IF hist.writes = 0
                                  THEN task[t].buf.created_at ELSE @,
                 !.minCreated = IF @ = None \/ task[t].buf.created_at < @
                                THEN task[t].buf.created_at ELSE @]
  /\ UNCHANGED <<now, index, lock, env, left>>

\* ------------------ Knowledge Writer: updateSkillIndex, updateGlobalIndex
updateIndexStart(t) ==
  /\ CanStart(t, "index")
  /\ left' = left - 1
  /\ \E k \in IndexKinds, e \in Entries :
       /\ e.description \in descs
       /\ e.name \in names
       /\ SetTask(t, [IdleTask EXCEPT !.op = "index", !.pc = "k_check",
                                      !.start = now, !.kind = k, !.entry = e])
  /\ UNCHANGED <<now, doc, sibling, index, lock, env, hist>>

\* fileExists(indexPath); with no file the template is seeded and the entry
\* appended
updateIndexExists(t) ==
  /\ task[t].pc = "i_exists"
  /\ SetTask(t, IF index[task[t].kind].exists
                THEN [task[t] EXCEPT !.pc = "i_read", !.found = TRUE]
                ELSE [task[t] EXCEPT !.pc = "i_write",
                        !.ibuf = updatedIndex(NoIndex, task[t].entry)])
  /\ UNCHANGED <<now, doc, sibling, index, lock, env, left, hist>>

\* content = readTextFile(indexPath); replace the entry or append it
updateIndexRead(t) ==
  /\ task[t].pc = "i_read"
  /\ \E f \in Fails :
       SetTask(t,
         IF f \/ ~index[task[t].kind].exists
         THEN [task[t] EXCEPT !.pc = writerExit, !.err = "ioerror"]
         ELSE [task[t] EXCEPT !.pc = "i_write",
                 !.ibuf = updatedIndex(index[task[t].kind], task[t].entry)])
  /\ UNCHANGED <<now, doc, sibling, index, lock, env, left, hist>>

\* writeTextFile(indexPath, content)
updateIndexWrite(t) ==
  /\ task[t].pc = "i_write"
  /\ \E f \in Fails :
       /\ index' = IF f THEN index
                   ELSE [index EXCEPT ![task[t].kind] = task[t].ibuf]
       /\ SetTask(t, IF f THEN [task[t] EXCEPT !.pc = writerExit, !.err = "ioerror"]
                     ELSE [task[t] EXCEPT !.pc = writerExit, !.res = "ok",
                                          !.wrote = TRUE])
  /\ UNCHANGED <<now, doc, sibling, lock, env, left, hist>>

\* ---------------------------------------------------------------- cleanup
\* a scan that takes every document to have a usage block
hasUsageAlways(f) == TRUE

\* if (!frontmatter.usage) continue
hasUsage(f) == f.usage

\* extractFrontmatter: { name: "unknown", description: "" } without a
\* frontmatter block, else the record of the block
extractFrontmatter(d) ==
  IF ~d.fm
  THEN [name |-> UnknownName, description |-> "", extra |-> "", usage |-> FALSE,
        created_at |-> None, last_updated |-> None, access_count |-> None,
        last_accessed |-> None]
  ELSE parseFrontmatter(d)

\* usage.created_at ? new Date(usage.created_at).getTime() : now
createdAtOf(f, scan) == IF f.created_at # None THEN f.created_at ELSE scan

\* a scan that takes a document without last_accessed as accessed just now
lastAccessedOfNow(f, scan) ==
  IF f.last_accessed # None THEN f.last_accessed ELSE scan

\* usage.last_accessed ? new Date(usage.last_accessed).getTime() : createdAt
lastAccessedOf(f, scan) ==
  IF f.last_accessed # None THEN f.last_accessed ELSE createdAtOf(f, scan)

\* usage.access_count ?? 0
accessCountIn(f) == IF f.access_count # None THEN f.access_count ELSE 0

\* Math.floor((now - createdAt) / DAY_MS)
ageDaysOf(f, scan) == (scan - createdAtOf(f, scan)) \div DAY_MS

\* Math.floor((now - lastAccessed) / DAY_MS)
inactiveDaysOf(f, scan) == (scan - lastAccessedOf(f, scan)) \div DAY_MS

\* a scan that wants the age to exceed the threshold
isEligibleStrict(ageDays, accessCount, inactiveDays, th) ==
  /\ ageDays > th.minAgeDays
  /\ accessCount < th.minAccessCount
  /\ inactiveDays >= th.maxInactiveDays

\* const isEligible = ageDays >= minAgeDays && accessCount < minAccessCount
\*                    && inactiveDays >= maxInactiveDays
isEligible(ageDays, accessCount, inactiveDays, th) ==
  /\ ageDays >= th.minAgeDays
  /\ accessCount < th.minAccessCount
  /\ inactiveDays >= th.maxInactiveDays

\* the body of the loop of findEligibleSkills for one document: the list
\* with its record, or the empty list
eligibleOf(d, scan, th) ==
  LET f == extractFrontmatter(d)
  IN IF hasUsage(f) /\
        isEligible(ageDaysOf(f, scan), accessCountIn(f), inactiveDaysOf(f, scan), th)
     THEN <<[name |-> f.name, ageDays |-> ageDaysOf(f, scan),
             accessCount |-> accessCountIn(f),
             inactiveDays |-> inactiveDaysOf(f, scan)]>>
     ELSE <<>>

\* content.replace(entryRegex, '') with ### <name>[\s\S]*?(?=\n### |$) and
\* flag g, for each deleted name
removeEntries(entries, deleted) ==
  SelectSeq(entries,
    LAMBDA e : \A i \in 1..Len(deleted) : ~IsPrefix(deleted[i], e.name))

\* the command returns
cleanupReturn(c, result) ==
  cleanup' = [c EXCEPT !.pc = "idle", !.res = result, !.ibuf = NoIndex]

\* execute up to the first read: the thresholds of the configuration,
\* fileExists(skillsDir), findFiles(pattern), now = Date.now()
cleanupStart ==
  /\ "cleanup" \in allowed
  /\ cleanup.pc = "idle"
  /\ left > 0
  /\ left' = left - 1
  /\ \E th \in Thresholds, confirm \in BOOLEAN :
       LET c == [IdleCleanup EXCEPT !.confirm = confirm, !.thresholds = th,
                                    !.now = now]
       IN IF doc.exists
          THEN cleanup' = [c EXCEPT !.pc = "c_read", !.files = 1]
          ELSE cleanupReturn(c, "nothing")
  /\ UNCHANGED <<now, doc, sibling, index, lock, task, active, scenario, hist>>

\* a run that treats no call as a preview
isPreviewNever(confirm) == FALSE

\* if (!confirm) return formatPreviewResult(eligible)
isPreview(confirm) == ~confirm

\* readTextFile(skillPath) and the test of the document; after the loop
\* execute returns the preview, or "No skills eligible", or goes on to
\* performCleanup. A failed read is logged and the file skipped.
cleanupRead ==
  /\ cleanup.pc = "c_read"
  /\ \E f \in Fails :
       LET found == IF f \/ ~doc.exists THEN <<>>
                    ELSE eligibleOf(doc, cleanup.now, cleanup.thresholds)
           c == [cleanup EXCEPT !.eligible = found,
                                !.seen = IF f THEN NoDoc ELSE doc]
       IN /\ IF found = <<>> THEN cleanupReturn(c, "nothing")
             ELSE IF isPreview(cleanup.confirm) THEN cleanupReturn(c, "preview")
             ELSE cleanup' = [c EXCEPT !.pc = "c_unlink"]
          /\ hist' = IF cleanup.confirm THEN hist
                     ELSE [hist EXCEPT !.preview =
                             [set |-> TRUE, eligible |-> found,
                              thresholds |-> cleanup.thresholds,
                              now |-> cleanup.now, seen |-> c.seen]]
  /\ UNCHANGED <<now, doc, sibling, index, lock, task, active, scenario, left>>

\* performCleanup: unlink(skill.path); a failure is logged
cleanupUnlink ==
  /\ cleanup.pc = "c_unlink"
  /\ \E f \in Fails :
       IF f \/ ~doc.exists
       THEN /\ cleanup' = [cleanup EXCEPT !.pc = "c_index"]
            /\ UNCHANGED <<doc, hist>>
       ELSE /\ doc' = NoDoc
            /\ cleanup' = [cleanup EXCEPT !.pc = "c_index",
                  !.deleted = Append(@, cleanup.eligible[1].name)]
            /\ hist' = [hist EXCEPT !.deleted = TRUE, !.fresh = {}]
  /\ UNCHANGED <<now, sibling, index, lock, task, active, scenario, left>>

\* updateMainIndex: fileExists(skillsDir), findFiles('*/SKILL.md'),
\* fileExists(indexPath); without an index there is nothing to update
cleanupIndexFind ==
  /\ cleanup.pc = "c_index"
  /\ IF index["skill"].exists
     THEN cleanup' = [cleanup EXCEPT !.pc = "c_iread"]
     ELSE cleanupReturn(cleanup, "deleted")
  /\ UNCHANGED <<now, doc, sibling, index, lock, task, active, scenario, left, hist>>

\* content = readTextFile(indexPath) and the removal of the entries; a
\* failure ends the command with the failure message
cleanupIndexRead ==
  /\ cleanup.pc = "c_iread"
  /\ \E f \in Fails :
       IF f \/ ~index["skill"].exists
       THEN cleanupReturn(cleanup, "failed")
       ELSE cleanup' = [cleanup EXCEPT !.pc = "c_iwrite",
              !.ibuf = [exists |-> TRUE,
                        entries |-> removeEntries(index["skill"].entries,
                                                  cleanup.deleted)]]
  /\ UNCHANGED <<now, doc, sibling, index, lock, task, active, scenario, left, hist>>

\* writeTextFile(indexPath, content.trim() + '\n'), then the report
cleanupIndexWrite ==
  /\ cleanup.pc = "c_iwrite"
  /\ \E f \in Fails :
       IF f THEN cleanupReturn(cleanup, "failed") /\ UNCHANGED index
       ELSE /\ index' = [index EXCEPT !["skill"] = cleanup.ibuf]
            /\ cleanupReturn(cleanup, "deleted")
  /\ UNCHANGED <<now, doc, sibling, lock, task, active, scenario, left, hist>>

cleanupStep ==
  \/ cleanupStart
  \/ cleanupRead
  \/ cleanupUnlink
  \/ cleanupIndexFind
  \/ cleanupIndexRead
  \/ cleanupIndexWrite

writerLockStep(t) ==
  \/ writerAcquireCheck(t)
  \/ writerAcquireWrite(t)
  \/ writerReleaseCheck(t)
  \/ writerReleaseRemove(t)

writeStep(t) ==
  \/ writeModuleSkillStart(t)
  \/ writeModuleSkillExists(t)
  \/ writeModuleSkillRead(t)
  \/ writeModuleSkillWrite(t)

indexStep(t) ==
  \/ updateIndexStart(t)
  \/ updateIndexExists(t)
  \/ updateIndexRead(t)
  \/ updateIndexWrite(t)

trackerStep(t) ==
  \/ trackSkillAccessStart(t)
  \/ trackerAcquireCheck(t)
  \/ trackerAcquireWrite(t)
  \/ trackerAcquireStill(t)
  \/ trackerAcquireVerify(t)
  \/ trackSkillAccessRead(t)
  \/ trackSkillAccessWrite(t)
  \/ trackerReleaseCheck(t)
  \/ trackerReleaseRemove(t)

\* time passes
Tick ==
  /\ now < Horizon
  /\ now' = now + TickMs
  /\ UNCHANGED <<doc, sibling, index, lock, task, env, left, hist>>

\* ------------------------------------------- callers of other processes
\* the process id of a process that runs none of the tasks
OtherPid == 0

\* acquireLock of a caller in another process reaches its writeTextFile:
\* the sentinel holds that process's id, whatever it held before
otherCallerWrites(l) ==
  /\ lock[l] # [exists |-> TRUE, pid |-> OtherPid, by |-> 0]
  /\ lock' = [lock EXCEPT ![l] = [exists |-> TRUE, pid |-> OtherPid, by |-> 0]]
  /\ UNCHANGED <<now, doc, sibling, index, task, env, left, hist>>

\* releaseLock of a caller in another process reaches its removeFile
otherCallerRemoves(l) ==
  /\ lock[l].exists
  /\ lock' = [lock EXCEPT ![l] = NoLock]
  /\ UNCHANGED <<now, doc, sibling, index, task, env, left, hist>>

\* the process of task t is killed while t is inside a critical section:
\* its tasks stop where they are, nothing of a finally block runs, and the
\* calls that follow come from the other processes
killProcess(t) ==
  /\ t \in active
  /\ \A u \in Tasks : task[u].pc # "dead"
  /\ task[t].pc \in {"w_exists", "w_read", "w_write", "i_exists", "i_read",
                     "i_write", "t_read", "t_write"}
  /\ task' = [u \in Tasks |->
               IF Pid(u) = Pid(t) THEN [task[u] EXCEPT !.pc = "dead"] ELSE task[u]]
  /\ active' = {u \in Tasks : Pid(u) # Pid(t)}
  /\ UNCHANGED <<now, doc, sibling, index, lock, params, left, hist>>

\* ------------------------------------------------- frontmatter as text
\* A text is a sequence of lines, a line a sequence of characters. A key
\* (name, usage, created_at, ...) and '---' count as one character each.
MaxText == 2
Chars == {"x", " ", ":"}
Texts == UNION {[1..n -> Chars] : n \in 0..MaxText}

\* an optional field: <<>> when undefined, <<v>> when it has the value v
Optional(S) == {<<>>} \cup {<<v>> : v \in S}

\* an ISO timestamp has colons; '' is the empty string
StampTexts == {<<>>, <<"t", ":", "0">>}
Counts == 0..(MaxCount + 1) \cup {10 * (MaxCount + 1)}

UsageMetadata ==
  [created_at : Optional(StampTexts), last_updated : Optional({<<"t", ":", "0">>}),
   access_count : Optional(Counts), last_accessed : Optional({<<"t", ":", "0">>})]

SkillFrontmatter ==
  [name : Texts, description : Texts, usage : Optional(UsageMetadata)]

\* `${n}` for a number
RECURSIVE toDigits(_)
toDigits(n) ==
  LET d == <<"0", "1", "2", "3", "4", "5", "6", "7", "8", "9">>[(n % 10) + 1]
  IN IF n < 10 THEN <<d>> ELSE Append(toDigits(n \div 10), d)

digitOf(c) ==
  CASE c = "0" -> 0 [] c = "1" -> 1 [] c = "2" -> 2 [] c = "3" -> 3
    [] c = "4" -> 4 [] c = "5" -> 5 [] c = "6" -> 6 [] c = "7" -> 7
    [] c = "8" -> 8 [] c = "9" -> 9 [] OTHER -> None

\* parseInt(value, 10) || 0: the leading digits, 0 when there are none
RECURSIVE parseIntFrom(_, _, _)
parseIntFrom(v, i, acc) ==
  IF i > Len(v) \/ digitOf(v[i]) = None THEN acc
  ELSE parseIntFrom(v, i + 1, 10 * acc + digitOf(v[i]))

parseInt0(v) == parseIntFrom(v, 1, 0)

FrontmatterMark == "---"

\* the lines formatSkillWithFrontmatter pushes for the usage block: a
\* string is written when it is truthy, the count when it is defined
usageLines(u) ==
  LET str(key, o) == IF o # <<>> /\ o[1] # <<>>
                     THEN <<<<" ", " ", key, ":", " ">> \o o[1]>> ELSE <<>>
      num(key, o) == IF o # <<>>
                     THEN <<<<" ", " ", key, ":", " ">> \o toDigits(o[1])>>
                     ELSE <<>>
  IN <<<<"usage", ":">>>> \o str("created_at", u.created_at)
       \o str("last_updated", u.last_updated)
       \o num("access_count", u.access_count)
       \o str("last_accessed", u.last_accessed)

\* formatSkillWithFrontmatter(frontmatter, body), as the lines it joins
formatSkillText(f, body) ==
  <<<<FrontmatterMark>>, <<"name", ":", " ">> \o f.name,
    <<"description", ":", " ">> \o f.description>>
  \o (IF f.usage # <<>> THEN usageLines(f.usage[1]) ELSE <<>>)
  \o <<<<FrontmatterMark>>, <<>>, body>>

\* content.match(/^---\n([\s\S]*?)\n---/): the lines after a first line
\* '---' up to the next line that starts with '---'; <<>> and FALSE when
\* the text has no such frame
frontmatterMatch(text) ==
  LET ends == {k \in 3..Len(text) :
                 text[k] # <<>> /\ text[k][1] = FrontmatterMark}
      k == CHOOSE i \in ends : \A j \in ends : i <= j
  IN IF Len(text) >= 3 /\ text[1] = <<FrontmatterMark>> /\ ends # {}
     THEN [found |-> TRUE, raw |-> SubSeq(text, 2, k - 1)]
     ELSE [found |-> FALSE, raw |-> <<>>]

\* line.search(/\S/): the number of leading blanks
RECURSIVE indentOf(_)
indentOf(l) ==
  IF l = <<>> \/ l[1] # " " THEN 0 ELSE 1 + indentOf(Tail(l))

\* String.prototype.trim
RECURSIVE trimEnd(_)
trimEnd(l) ==
  IF l = <<>> \/ l[Len(l)] # " " THEN l ELSE trimEnd(SubSeq(l, 1, Len(l) - 1))

trim(l) == trimEnd(SubSeq(l, indentOf(l) + 1, Len(l)))

includesColon(l) == \E i \in 1..Len(l) : l[i] = ":"

firstColon(l) == CHOOSE i \in 1..Len(l) : l[i] = ":" /\ \A j \in 1..(i - 1) : l[j] # ":"

\* const [key, ...valueParts] = trimmed.split(':'); key.trim()
keyOf(l) == trim(SubSeq(l, 1, firstColon(l) - 1))

\* valueParts.join(':').trim(): what follows the first colon
valueOf(l) == trim(SubSeq(l, firstColon(l) + 1, Len(l)))

\* a parsed value: undefined, a string, or the object {} of a key without
\* a value
NoValue == [kind |-> "undefined", text |-> <<>>]
StringValue(v) == [kind |-> "string", text |-> v]
ObjectValue == [kind |-> "object", text |-> <<>>]

NoChildren ==
  [created_at |-> <<>>, last_updated |-> <<>>, access_count |-> <<>>,
   last_accessed |-> <<>>]

\* const frontmatter: any = {}; nestedObject = null
EmptyParse ==
  [name |-> NoValue, description |-> NoValue, usage |-> NoValue,
   children |-> NoChildren, nested |-> "null"]

\* the body of the loop of parseFrontmatter for one line
parseLine(p, line) ==
  LET trimmed == trim(line)
      key == keyOf(trimmed)
      value == valueOf(trimmed)
      val == IF value # <<>> THEN StringValue(value) ELSE ObjectValue
      open == IF value # <<>> THEN "null"
              ELSE IF key \in {<<"name">>, <<"description">>, <<"usage">>}
                   THEN key[1] ELSE "other"
  IN IF trimmed = <<>> THEN p
     ELSE IF indentOf(line) = 0 /\ includesColon(trimmed)
     THEN IF key = <<"name">> THEN [p EXCEPT !.name = val, !.nested = open]
          ELSE IF key = <<"description">>
          THEN [p EXCEPT !.description = val, !.nested = open]
          ELSE IF key = <<"usage">>
          THEN [p EXCEPT !.usage = val, !.nested = open,
                         !.children = NoChildren]
          ELSE [p EXCEPT !.nested = open]
     ELSE IF indentOf(line) > 0 /\ p.nested = "usage" /\ includesColon(trimmed)
     THEN IF key = <<"access_count">>
          THEN [p EXCEPT !.children.access_count = <<parseInt0(value)>>]
          ELSE IF key = <<"created_at">>
          THEN [p EXCEPT !.children.created_at = <<value>>]
          ELSE IF key = <<"last_updated">>
          THEN [p EXCEPT !.children.last_updated = <<value>>]
          ELSE IF key = <<"last_accessed">>
          THEN [p EXCEPT !.children.last_accessed = <<value>>]
          ELSE p
     ELSE p

\* parseFrontmatter(raw), raw as its lines
RECURSIVE parseFrom(_, _, _)
parseFrom(raw, i, p) ==
  IF i > Len(raw) THEN p ELSE parseFrom(raw, i + 1, parseLine(p, raw[i]))

parseFrontmatterText(raw) == parseFrom(raw, 1, EmptyParse)

\* a body line that would read as a key if it were parsed
BodyTexts == {<<"x">>, <<"name", ":", " ", "x">>}

IdleCalc == [stage |-> "none"]

\* formatSkillWithFrontmatter(R, body)
codecFormat ==
  /\ calc.stage = "record"
  /\ calc' = [calc EXCEPT !.stage = "text",
                          !.text = formatSkillText(calc.r, calc.body)]
  /\ UNCHANGED <<store, ext>>

\* the match of trackSkillAccess on the text
codecMatch ==
  /\ calc.stage = "text"
  /\ calc' = [calc EXCEPT !.stage = "raw",
                          !.raw = frontmatterMatch(calc.text).raw,
                          !.found = frontmatterMatch(calc.text).found]
  /\ UNCHANGED <<store, ext>>

\* parseFrontmatter(frontmatterRaw)
codecParse ==
  /\ calc.stage = "raw"
  /\ calc' = [calc EXCEPT !.stage = "parsed",
                          !.out = parseFrontmatterText(calc.raw)]
  /\ UNCHANGED <<store, ext>>

\* --------------------------------------------------------- toSkillName
LowerCase == <<"a", "b", "c", "d", "e", "f", "g", "h", "i", "j", "k", "l", "m",
               "n", "o", "p", "q", "r", "s", "t", "u", "v", "w", "x", "y", "z">>
UpperCase == <<"A", "B", "C", "D", "E", "F", "G", "H", "I", "J", "K", "L", "M",
               "N", "O", "P", "Q", "R", "S", "T", "U", "V", "W", "X", "Y", "Z">>
Digits == {"0", "1", "2", "3", "4", "5", "6", "7", "8", "9"}

isLower(c) == \E i \in 1..Len(LowerCase) : LowerCase[i] = c
isUpper(c) == \E i \in 1..Len(UpperCase) : UpperCase[i] = c

\* the class [a-z0-9-] under the flag i
isNameChar(c) == isLower(c) \/ isUpper(c) \/ c \in Digits \/ c = "-"

\* the class [\/\\]
isSeparator(c) == c \in {"/", "\\"}

\* String.prototype.toLowerCase for one character
lowerOf(c) ==
  IF isUpper(c) THEN LowerCase[CHOOSE i \in 1..Len(UpperCase) : UpperCase[i] = c]
  ELSE c

\* .replace(/[\/\\]/g, '-')
replaceSeparators(p) ==
  [i \in 1..Len(p) |-> IF isSeparator(p[i]) THEN "-" ELSE p[i]]

\* .replace(/[^a-z0-9-]/gi, '')
removeOthers(p) == SelectSeq(p, isNameChar)

\* .toLowerCase()
toLowerCase(p) == [i \in 1..Len(p) |-> lowerOf(p[i])]

nameLimit == 64

\* .slice(0, 64)
sliceName(p) == SubSeq(p, 1, IF Len(p) < nameLimit THEN Len(p) ELSE nameLimit)

ProjectRoot == <<"p", "r", "o", "j", "e", "c", "t", "-", "r", "o", "o", "t">>

\* a toSkillName that removes the characters before it replaces the
\* separators
toSkillNameStripFirst(modulePath) ==
  IF modulePath = <<".">> THEN ProjectRoot
  ELSE sliceName(toLowerCase(replaceSeparators(removeOthers(modulePath))))

toSkillName(modulePath) ==
  IF modulePath = <<".">> THEN ProjectRoot
  ELSE sliceName(toLowerCase(removeOthers(replaceSeparators(modulePath))))

\* the module paths of the model: short paths over letters of both cases,
\* a digit, both separators and characters that are removed, each also
\* repeated beyond the limit, and the paths of the tests
PathChars == {"a", "B", "7", "/", "\\", "-", ".", "_"}
RECURSIVE Repeat(_, _)
Repeat(w, k) == IF k = 0 THEN <<>> ELSE w \o Repeat(w, k - 1)
Repeats == {1, nameLimit \div 2 + 1}
SrcAuth == <<"s", "r", "c", "/", "a", "u", "t", "h">>
SrcMainServicesConfig ==
  <<"s", "r", "c", "/", "m", "a", "i", "n", "/", "s", "e", "r", "v", "i", "c",
    "e", "s", "/", "c", "o", "n", "f", "i", "g">>
ModulePaths ==
  {Repeat(w, k) : w \in UNION {[1..n -> PathChars] : n \in 0..MaxText},
                  k \in Repeats}
    \cup {SrcAuth, SrcMainServicesConfig}

\* toSkillName(modulePath)
nameCall ==
  /\ calc.stage = "path"
  /\ calc' = [calc EXCEPT !.stage = "named", !.out = toSkillName(calc.p)]
  /\ UNCHANGED <<store, ext>>

\* ----------------------------------------------------- shouldTrackPath
\* A path is a sequence of characters; the words .opencode, skills,
\* modules, SKILL, .knowledge and src count as one character each.
\* a path segment that may run over slashes
segmentAny(p, a, b) == a <= b /\ b <= Len(p)

\* [^\/]+ matched against p[a..b]
segment(p, a, b) ==
  a <= b /\ b <= Len(p) /\ \A k \in a..b : p[k] # "/"

\* /\.opencode\/skills\/[^\/]+\/modules\/[^\/]+\.md$/.test(filePath): the
\* pattern matched from position i, the two segments ending at j and k
matchesAt(p, i, j, k) ==
  /\ i + 4 <= j /\ j + 4 <= k /\ k + 3 = Len(p)
  /\ p[i] = ".opencode" /\ p[i + 1] = "/" /\ p[i + 2] = "skills"
  /\ p[i + 3] = "/"
  /\ segment(p, i + 4, j)
  /\ p[j + 1] = "/" /\ p[j + 2] = "modules" /\ p[j + 3] = "/"
  /\ segment(p, j + 4, k)
  /\ p[k + 1] = "." /\ p[k + 2] = "m" /\ p[k + 3] = "d"

shouldTrackPath(filePath) ==
  \E i \in 1..Len(filePath), j \in 1..Len(filePath), k \in 1..Len(filePath) :
    matchesAt(filePath, i, j, k)

Md == <<".", "m", "d">>
SkillsDir == <<"/", ".opencode", "/", "skills">>

\* the paths of the model: module documents, index documents, source
\* files and near misses, under a project root
RootDirs == {<<"/", "x">>, <<>>, <<"/", "x", "/", "m", "y">>}
TreeDirs == {SkillsDir, <<".opencode", "/", "skills">>, <<"/", ".knowledge">>,
             <<"/", "src">>, <<"/", ".opencode">>}
ProjectDirs == {<<>>, <<"/", "p">>, <<"/", "p", "/", "q">>}
ModuleDirs == {<<>>, <<"/", "modules">>, <<"/", "modules", "/", "x">>}
FileNames == {<<"/", "SKILL">> \o Md, <<"/", "x">> \o Md, <<"/">> \o Md,
              <<"/", "x", ".", "t", "s">>, <<"/", "x">> \o Md \o <<"x">>,
              <<"/", "x">> \o Md \o <<"/">>, <<"/", "x", ".", "x">> \o Md}
FilePaths ==
  {r \o t \o q \o m \o f : r \in RootDirs, t \in TreeDirs, q \in ProjectDirs,
                           m \in ModuleDirs, f \in FileNames}

\* shouldTrackPath(filePath, projectRoot)
trackPathCall ==
  /\ calc.stage = "file"
  /\ calc' = [calc EXCEPT !.stage = "tested", !.out = shouldTrackPath(calc.p)]
  /\ UNCHANGED <<store, ext>>

\* ------------------------------------- the path writeModuleSkill writes
\* getProjectSkillName(projectRoot): sanitizeSkillName never returns ''
ProjectName == <<"p">>
RootDir == <<"/", "x">>

\* skillPath = join(rootDir, '.opencode', 'skills', projectName, 'modules',
\* `${skillName}.md`)
skillPathOf(rootDir, projectName, modulePath) ==
  rootDir \o SkillsDir \o <<"/">> \o projectName \o <<"/", "modules", "/">>
    \o toSkillName(modulePath) \o Md

\* writeModuleSkill as far as the path goes: writeTextFile(skillPath,
\* content); return skillPath
pathWrite ==
  /\ calc.stage = "module"
  /\ LET skillPath == skillPathOf(RootDir, ProjectName, calc.m)
     IN calc' = [calc EXCEPT !.stage = "written", !.returned = skillPath,
                             !.files = {skillPath}]
  /\ UNCHANGED <<store, ext>>

\* a later read of the document: shouldTrackPath(filePath, projectRoot)
pathTest ==
  /\ calc.stage = "written"
  /\ calc' = [calc EXCEPT !.stage = "read",
                          !.out = shouldTrackPath(calc.returned)]
  /\ UNCHANGED <<store, ext>>

\* ------------------------------------------------- status: getUsageStats
MaxFiles == 3

\* the access counts of the stored documents: None when the document has
\* no access_count line
StoredCounts == {None, 0, 2, 4, 5, 7, 9, 10, 15}

\* cleanupThresholds.minAccessCount of the configuration: <<>> when the
\* configuration has no thresholds
ConfiguredCounts == {<<>>, <<0>>, <<1>>, <<5>>, <<6>>, <<10>>}

defaultMinAccess == 5

\* config.cleanupThresholds?.minAccessCount || 5
minAccessThresholdOf(configured) ==
  IF configured = <<>> \/ configured[1] = 0 THEN defaultMinAccess
  ELSE configured[1]

\* the files under .opencode/skills/<project>: module documents and the
\* index SKILL.md
StatusFiles ==
  [kind : {"module"}, access_count : StoredCounts]
    \cup {[kind |-> "index", access_count |-> None]}

\* a scan that takes every markdown file for a module document
isModuleFileAny(f) == TRUE

\* findFiles('*/modules/*.md')
isModuleFile(f) == f.kind = "module"

\* content.match(/access_count:\s*(\d+)/): 0 without a match
extractAccessCount(f) == IF f.access_count = None THEN 0 ELSE f.access_count

highUsageFrom == 10
mediumUsageFrom == 5

NoStats ==
  [totalSkills |-> 0, totalAccesses |-> 0, lowFrequencyCount |-> 0,
   minAccessThreshold |-> 0, highUsageCount |-> 0, mediumUsageCount |-> 0,
   lowUsageCount |-> 0]

\* getUsageStats up to the loop: the threshold and the files found
statusStart ==
  /\ calc.stage = "status"
  /\ LET found == SelectSeq(calc.files, isModuleFile)
     IN calc' = [calc EXCEPT
          !.stage = "scan", !.moduleSkills = found, !.i = 1,
          !.stats = [NoStats EXCEPT
             !.minAccessThreshold = minAccessThresholdOf(calc.configured),
             !.totalSkills = Len(found)]]
  /\ UNCHANGED <<store, ext>>

\* one turn of the loop: readTextFile, extractAccessCount and the
\* counters; a failed read is skipped
statusRead ==
  /\ calc.stage = "scan"
  /\ calc.i <= Len(calc.moduleSkills)
  /\ \E f \in Fails :
       LET accessCount == extractAccessCount(calc.moduleSkills[calc.i])
           st == calc.stats
       IN calc' = [calc EXCEPT !.i = @ + 1, !.stats =
            IF f THEN st
            ELSE [st EXCEPT
              !.totalAccesses = @ + accessCount,
              !.lowFrequencyCount =
                 IF accessCount < st.minAccessThreshold THEN @ + 1 ELSE @,
              !.highUsageCount =
                 IF accessCount >= highUsageFrom THEN @ + 1 ELSE @,
              !.mediumUsageCount =
                 IF accessCount < highUsageFrom /\ accessCount >= mediumUsageFrom
                 THEN @ + 1 ELSE @,
              !.lowUsageCount =
                 IF accessCount < mediumUsageFrom THEN @ + 1 ELSE @]]
  /\ UNCHANGED <<store, ext>>

\* return { totalSkills: moduleSkills.length, ... }
statusReturn ==
  /\ calc.stage = "scan"
  /\ calc.i > Len(calc.moduleSkills)
  /\ calc' = [calc EXCEPT !.stage = "reported"]
  /\ UNCHANGED <<store, ext>>

\* ------------------------------------------------ the extraction context
\* A section content is modelled by its length in characters, which is all
\* that estimateTokens and substring(0, n) depend on.
MaxBudget == 4

\* Math.ceil(text.length / 4)
estimateTokens(length) == (length + 3) \div 4

\* '\n... [truncated]'.length
truncationMark == 16

\* the sections of preprocessSessionSummary in their order, and in the
\* order of working.sort((a, b) => a.importance - b.importance)
SectionNames == <<"Conversation", "Diff", "ToolCalls", "Snippets">>
ByImportance == <<"Snippets", "ToolCalls", "Diff", "Conversation">>

Sections == {SectionNames[i] : i \in 1..Len(SectionNames)}

\* sections.reduce((sum, s) => sum + estimateTokens(s.content), 0)
RECURSIVE tokensFrom(_, _)
tokensFrom(contents, i) ==
  IF i > Len(SectionNames) THEN 0
  ELSE estimateTokens(contents[SectionNames[i]]) + tokensFrom(contents, i + 1)

tokensOf(contents) == tokensFrom(contents, 1)

\* victim.content.substring(0, targetLength) + '\n... [truncated]'
truncatedContent(length, targetLength) ==
  (IF length < targetLength THEN length ELSE targetLength) + truncationMark

\* the while loop of truncateSections: the least important section left is
\* emptied when that is not more than what has to go, else it is cut
RECURSIVE truncateFrom(_, _, _, _)
truncateFrom(byName, working, totalTokens, maxTokens) ==
  IF totalTokens <= maxTokens \/ working = <<>> THEN byName
  ELSE LET victim == Head(working)
           tokensToRemove == totalTokens - maxTokens
           sectionTokens == estimateTokens(byName[victim])
       IN IF sectionTokens <= tokensToRemove
          THEN truncateFrom([byName EXCEPT ![victim] = 0], Tail(working),
                            totalTokens - sectionTokens, maxTokens)
          ELSE [byName EXCEPT ![victim] =
                  truncatedContent(@, (sectionTokens - tokensToRemove) * 4)]

truncateSections(sections, maxTokens) ==
  IF tokensOf(sections) <= maxTokens
  THEN [sections |-> sections, truncated |-> FALSE,
        originalTokens |-> tokensOf(sections)]
  ELSE [sections |-> truncateFrom(sections, ByImportance, tokensOf(sections),
                                  maxTokens),
        truncated |-> TRUE, originalTokens |-> tokensOf(sections)]

\* preprocessSessionSummary from the four contents on: the final contents,
\* totalTokens counted on them again, truncated
preprocessSessionSummary(sections, maxTokens) ==
  LET t == truncateSections(sections, maxTokens)
  IN [sections |-> t.sections, totalTokens |-> tokensOf(t.sections),
      truncated |-> t.truncated]

\* preprocessSessionSummary(ctx, sessionID, toolCalls, { maxTokens })
summaryCall ==
  /\ calc.stage = "sections"
  /\ calc' = [calc EXCEPT
       !.stage = "summary",
       !.out = preprocessSessionSummary(calc.sections, calc.maxTokens)]
  /\ UNCHANGED <<store, ext>>

\* ------------------------------------------------------- getModulePath
\* A path is the sequence of its components, absolute paths from the root
\* of the file system; a component has no separator in it.
MaxDepth == 3

\* EXCLUDED_DIRS
EXCLUDED_DIRS ==
  {".git", ".svn", ".hg", "node_modules", "bower_components", "jspm_packages",
   "vendor", "dist", "build", "out", "output", ".output", ".next", ".nuxt",
   ".vuepress", ".docusaurus", ".svelte-kit", "coverage", ".nyc_output",
   ".vscode", ".idea", ".eclipse", ".settings", ".husky", "tmp", "temp",
   ".cache", ".parcel-cache", ".turbo", ".pnpm", ".yarn", ".npm"}

\* a getModulePath without the exclusion list
isExcludedNever(part) == FALSE

\* EXCLUDED_DIRS.includes(parts[0])
isExcluded(part) == part \in EXCLUDED_DIRS

\* path.normalize on the components of an absolute path: '.' is dropped,
\* '..' drops the component before it and is dropped at the root
RECURSIVE normalizeFrom(_, _, _)
normalizeFrom(segs, i, acc) ==
  IF i > Len(segs) THEN acc
  ELSE normalizeFrom(segs, i + 1,
         IF segs[i] = "." \/ segs[i] = "" THEN acc
         ELSE IF segs[i] = ".."
         THEN (IF acc = <<>> THEN acc ELSE SubSeq(acc, 1, Len(acc) - 1))
         ELSE Append(acc, segs[i]))

\* isAbsolute(filePath) ? filePath : resolve(projectRoot, filePath), with
\* the normalisation that resolve, dirname and relative do
resolve(projectRoot, filePath) ==
  normalizeFrom(IF filePath.abs THEN filePath.segs
                ELSE projectRoot \o filePath.segs, 1, <<>>)

\* path.dirname of an absolute path
dirname(path) == IF path = <<>> THEN <<>> ELSE SubSeq(path, 1, Len(path) - 1)

\* the number of leading components two paths share
RECURSIVE sharedFrom(_, _, _)
sharedFrom(a, b, i) ==
  IF i <= Len(a) /\ i <= Len(b) /\ a[i] = b[i] THEN sharedFrom(a, b, i + 1)
  ELSE i - 1

\* path.relative(from, to): '..' for each component of from that is not
\* shared, then the rest of to
relative(from, to) ==
  LET k == sharedFrom(from, to, 1)
  IN [i \in 1..(Len(from) - k) |-> ".."] \o SubSeq(to, k + 1, Len(to))

\* relativePath.split(/[/\\]/): the empty string splits into one empty part
split(path) == IF path = <<>> THEN <<"">> ELSE path

\* .filter(p => p && p !== '.')
filterParts(parts) == SelectSeq(parts, LAMBDA p : p # "" /\ p # ".")

\* the module '.'
RootModule == <<".">>

getModulePath(filePath, projectRoot) ==
  LET absolutePath == resolve(projectRoot, filePath)
      relativePath == relative(projectRoot, dirname(absolutePath))
      parts == filterParts(split(relativePath))
  IN IF Len(parts) = 0 THEN RootModule
     ELSE IF isExcluded(parts[1]) THEN RootModule
     ELSE IF Len(parts) = 1 THEN <<parts[1]>>
     ELSE SubSeq(parts, 1, 2)

\* getModulePath(primaryFile, ctx.directory)
modulePathCall ==
  /\ calc.stage = "file"
  /\ calc' = [calc EXCEPT !.stage = "module",
                          !.out = getModulePath(calc.file, calc.root)]
  /\ UNCHANGED <<store, ext>>

\* ------------------------------------------------ the hooks of a session
\* One session S. A handler that awaits is in flight between its steps.
MaxEvents == 5
MaxCalls == 2

\* without a session
NoSession == [budget |-> 0]

\* the module state of knowledge-extractor.ts and context-injector.ts for
\* S, the timers of S that are set, and the handlers in flight
NewSession(auto) ==
  [autoExtract |-> auto,   \* config.autoExtract
   budget |-> MaxEvents,   \* events and messages still to come
   nextId |-> 1,
   chats |-> 0,            \* chat messages handled so far
   deleted |-> FALSE,      \* session.deleted has been handled
   timerMap |-> <<>>,      \* sessionDebounceTimers.get(S)
   pending |-> {},         \* timers set, not cleared and not fired
   toolCalls |-> None,     \* sessionToolCalls.get(S).length
   toastShown |-> FALSE,   \* sessionToastShown.has(S)
   injected |-> FALSE,     \* sessionKnowledgeInjected.has(S)
   inProgress |-> FALSE,   \* sessionExtractionInProgress.get(S)
   idling |-> {},          \* session.idle handlers awaiting showToast
   tooling |-> {},         \* tool.execute.after handlers awaiting session.get
   chatting |-> {},        \* chat.message handlers awaiting
   deleting |-> FALSE,     \* session.deleted between its two handlers
   extracting |-> {}]      \* timer callbacks that have not returned

\* clearTimeout(timer) for the entry of the map, if there is one
clearTimer(e) ==
  IF e.timerMap = <<>> THEN e.pending
  ELSE {t \in e.pending : t.id # e.timerMap[1]}

canArrive == ext.budget > 0 /\ ~ext.deleted /\ ~ext.deleting

\* the arrival of an event or a message uses the budget and an identity
arrived(e) == [e EXCEPT !.budget = @ - 1, !.nextId = @ + 1]

\* eventHandler for session.idle up to its await of showToast: with
\* autoExtract off the hint, otherwise clearTimeout(existingTimer)
sessionIdle ==
  /\ canArrive
  /\ ext' =
       IF ~ext.autoExtract
       THEN IF ext.toolCalls # None /\ ext.toolCalls > 0 /\ ~ext.toastShown
            THEN [arrived(ext) EXCEPT !.idling = @ \cup
                    {[id |-> ext.nextId, epoch |-> ext.chats, pc |-> "hint"]}]
            ELSE arrived(ext)
       ELSE [arrived(ext) EXCEPT
               !.pending = clearTimer(ext),
               !.idling = @ \cup
                 {[id |-> ext.nextId, epoch |-> ext.chats, pc |-> "countdown"]}]
  /\ UNCHANGED <<store, calc>>

\* the rest of the session.idle handler: setTimeout and
\* sessionDebounceTimers.set(sessionID, timer)
idleSchedule ==
  /\ \E h \in ext.idling :
       /\ h.pc = "countdown"
       /\ ext' = [ext EXCEPT
            !.idling = @ \ {h},
            !.pending = @ \cup {[id |-> h.id, epoch |-> h.epoch]},
            !.timerMap = <<h.id>>]
  /\ UNCHANGED <<store, calc>>

\* with autoExtract off: sessionToastShown.set(sessionID, true)
idleHint ==
  /\ \E h \in ext.idling :
       /\ h.pc = "hint"
       /\ ext' = [ext EXCEPT !.idling = @ \ {h}, !.toastShown = TRUE]
  /\ UNCHANGED <<store, calc>>

\* an extractKnowledge that lets every call through
inProgressGuardOff(e) == FALSE

\* if (sessionExtractionInProgress.get(sessionID)) return the zero result
inProgressGuard(e) == e.inProgress

\* the calls of extractKnowledge that hold the flag: before and after the
\* summary of the tool calls is built
Working == {"extract", "prompt"}

\* sessionToolCalls.delete(sessionID) while calls are at work: each keeps
\* the array it took from the map, which no handler appends to any more
detached(cs, n) ==
  {IF c.pc \in Working
   THEN [c EXCEPT !.stale = TRUE, !.seen = IF c.pc = "extract" THEN n ELSE @]
   ELSE c : c \in cs}

\* a timer fires: the callback calls extractKnowledge, which returns at
\* once when an extraction is in progress or no tool call is tracked, and
\* otherwise sets sessionExtractionInProgress and goes to work
timerFires ==
  /\ \E t \in ext.pending :
       LET skips == inProgressGuard(ext)
           tracked == ext.toolCalls # None /\ ext.toolCalls > 0
           works == ~skips /\ tracked
       IN ext' = [ext EXCEPT
            !.pending = @ \ {t},
            !.inProgress = @ \/ works,
            !.extracting = @ \cup
              {[id |-> t.id, epoch |-> t.epoch,
                pc |-> IF works THEN "extract" ELSE "toast",
                res |-> IF skips THEN "skipped"
                        ELSE IF tracked THEN "none" ELSE "empty",
                seen |-> 0, stale |-> FALSE]}]
  /\ UNCHANGED <<store, calc>>

\* preprocessSessionSummary has fetched the conversation and formats the
\* tool calls of the array as it is by then
extractionSummary ==
  /\ \E c \in ext.extracting :
       /\ c.pc = "extract"
       /\ ext' = [ext EXCEPT
            !.extracting = (@ \ {c}) \cup
              {[c EXCEPT !.pc = "prompt",
                         !.seen = IF c.stale THEN @ ELSE ext.toolCalls]}]
  /\ UNCHANGED <<store, calc>>

\* extractKnowledge returns: sessionToolCalls.delete(sessionID) when it
\* got to its end, sessionExtractionInProgress.delete in the finally; the
\* callback awaits showToast
extractionEnds ==
  /\ \E c \in ext.extracting, ok \in BOOLEAN :
       /\ c.pc \in Working
       /\ ok => c.pc = "prompt"
       /\ LET done == [c EXCEPT !.pc = "toast", !.seen = 0, !.stale = FALSE,
                                !.res = IF ok THEN "ok" ELSE "failed"]
              rest == ext.extracting \ {c}
          IN ext' = [ext EXCEPT
               !.extracting =
                 (IF ok /\ ext.toolCalls # None
                  THEN detached(rest, ext.toolCalls) ELSE rest) \cup {done},
               !.inProgress = FALSE,
               !.toolCalls = IF ok THEN None ELSE @]
  /\ UNCHANGED <<store, calc>>

\* the end of the callback: sessionDebounceTimers.delete(sessionID)
callbackEnds ==
  /\ \E c \in ext.extracting :
       /\ c.pc = "toast"
       /\ ext' = [ext EXCEPT !.extracting = @ \ {c}, !.timerMap = <<>>]
  /\ UNCHANGED <<store, calc>>

\* toolExecuteAfter up to its await of session.get
toolExecuteAfter ==
  /\ canArrive
  /\ ext' = [arrived(ext) EXCEPT !.tooling = @ \cup {ext.nextId}]
  /\ UNCHANGED <<store, calc>>

\* the rest of toolExecuteAfter: nothing for a child session or a failed
\* session.get, otherwise getToolCalls(sessionID).push(record)
toolTracked ==
  /\ \E h \in ext.tooling, tracked \in BOOLEAN :
       /\ tracked => ext.toolCalls < MaxCalls
       /\ ext' = [ext EXCEPT
            !.tooling = @ \ {h},
            !.toolCalls = IF ~tracked THEN @
                          ELSE IF @ = None THEN 1 ELSE @ + 1]
  /\ UNCHANGED <<store, calc>>

\* contextInjector's chat.message up to its first await
injectorEntry(e, id) ==
  IF e.injected THEN e
  ELSE [e EXCEPT !.chatting = @ \cup {[id |-> id, pc |-> "inject"]}]

\* the chat.message hook: cancelPendingExtraction(sessionID), then the
\* toast when a timer was cancelled, then the context injector
chatMessage ==
  /\ canArrive
  /\ LET e == [arrived(ext) EXCEPT !.chats = @ + 1]
     IN ext' =
          IF ext.timerMap # <<>>
          THEN [e EXCEPT !.pending = clearTimer(ext), !.timerMap = <<>>,
                         !.chatting = @ \cup
                           {[id |-> ext.nextId, pc |-> "cancelled"]}]
          ELSE injectorEntry(e, ext.nextId)
  /\ UNCHANGED <<store, calc>>

\* after the toast of the cancellation
chatCancelled ==
  /\ \E h \in ext.chatting :
       /\ h.pc = "cancelled"
       /\ ext' = injectorEntry([ext EXCEPT !.chatting = @ \ {h}], h.id)
  /\ UNCHANGED <<store, calc>>

\* sessionKnowledgeInjected.add(input.sessionID)
chatInjected ==
  /\ \E h \in ext.chatting :
       /\ h.pc = "inject"
       /\ ext' = [ext EXCEPT !.chatting = @ \ {h}, !.injected = TRUE]
  /\ UNCHANGED <<store, calc>>

\* session.deleted in the context injector
sessionDeletedInjector ==
  /\ ~ext.deleted /\ ~ext.deleting /\ ext.budget > 0
  /\ ext' = [arrived(ext) EXCEPT !.injected = FALSE, !.deleting = TRUE]
  /\ UNCHANGED <<store, calc>>

\* session.deleted in the knowledge extractor
sessionDeletedExtractor ==
  /\ ext.deleting
  /\ ext' = [ext EXCEPT
       !.deleting = FALSE, !.deleted = TRUE,
       !.pending = clearTimer(ext), !.timerMap = <<>>,
       !.extracting = IF ext.toolCalls # None
                      THEN detached(@, ext.toolCalls) ELSE @,
       !.toolCalls = None, !.toastShown = FALSE]
  /\ UNCHANGED <<store, calc>>

\* ------------------------------------------------------- initial states
InitFiles(t0, d, x, a, o, f, ds, ns, n, ms) ==
  /\ now = t0
  /\ doc = d
  /\ sibling = NoDoc
  /\ mods = ms
  /\ index = [k \in IndexKinds |-> IF k = "skill" THEN x ELSE NoIndex]
  /\ lock = [l \in LockFiles |-> NoLock]
  /\ task = [t \in Tasks |-> IdleTask]
  /\ active = a
  /\ allowed = o
  /\ faulty = f
  /\ descs = ds
  /\ names = ns
  /\ left = n
  /\ cleanup = IdleCleanup
  /\ hist = InitHist(d)

\* the store with no computation beside it
InitStore(t0, d, x, a, o, f, ds, ns, n, ms) ==
  /\ InitFiles(t0, d, x, a, o, f, ds, ns, n, ms)
  /\ calc = IdleCalc
  /\ ext = NoSession

\* a store that is not used, for the computations beside it
InitIdle ==
  /\ InitFiles(TickMs, NoDoc, NoIndex, {}, {}, FALSE, {}, {}, 0, {})
  /\ ext = NoSession

\* a project of which one module is written
InitAt(t0, d, x, a, o, f, ds, ns, n) ==
  InitStore(t0, d, x, a, o, f, ds, ns, n, {ModuleName})

InitWith(d, a, o, f, ds, ns, n) == InitAt(TickMs, d, NoIndex, a, o, f, ds, ns, n)

\* concurrent trackSkillAccess calls on an existing document
InitTrack ==
  \E c \in {None} \cup 0..MaxCount :
    InitWith(UsedDoc(c), Tasks, {"track"}, FALSE, {"d1"}, Names, MaxOps - 1)

NextTrack == (\E t \in Tasks : trackerStep(t)) \/ Tick

SpecTrack == InitTrack /\ [][NextTrack]_vars

\* concurrent writeModuleSkill calls, the document absent or present
InitWrite ==
  \E d \in {NoDoc, UsedDoc(1)} :
    InitWith(d, {1, 3}, {"write"}, FALSE, {"d1"}, Names, MaxOps)

NextWrite == (\E t \in Tasks : writerLockStep(t) \/ writeStep(t)) \/ Tick

SpecWrite == InitWrite /\ [][NextWrite]_vars

\* concurrent writeModuleSkill calls for two modules of one project
InitModules ==
  \E d \in {NoDoc, UsedDoc(1)} :
    InitStore(TickMs, d, NoIndex, {1, 3}, {"write"}, FALSE, {"d1"}, Names,
              MaxOps - 1, Modules)

SpecModules == InitModules /\ [][NextWrite]_vars

\* writeModuleSkill and trackSkillAccess calls of two tasks on one document
InitMixed ==
  \E d \in {NoDoc, UsedDoc(1)} :
    InitWith(d, {1, 2}, {"write", "track"}, FALSE, {"d1"}, Names, MaxOps)

NextMixed ==
  (\E t \in Tasks : writerLockStep(t) \/ writeStep(t) \/ trackerStep(t)) \/ Tick

Spec == InitMixed /\ [][NextMixed]_vars

\* the calls of one task, each awaited before the next
InitSeq ==
  \E d \in {NoDoc, UsedDoc(None), PlainDoc} :
    InitWith(d, {1}, {"write", "track"}, FALSE, Descriptions, Names, MaxOps)

SpecSeq == InitSeq /\ [][NextMixed]_vars

\* updateSkillIndex and updateGlobalIndex calls of one task, from no index
InitIndex == InitWith(NoDoc, {1}, {"index"}, FALSE, {"d1", "d2"}, Names, MaxOps)

NextIndex == (\E t \in Tasks : writerLockStep(t) \/ indexStep(t)) \/ Tick

SpecIndex == InitIndex /\ [][NextIndex]_vars

\* every operation, of two processes, on a filesystem that may fail; no
\* time passes, so that no acquireLock times out
InitFault ==
  \E d \in {UsedDoc(None), PlainDoc} :
    InitWith(d, {1, 3}, {"write", "track", "index"}, TRUE, {"d1"}, {<<"a">>}, MaxOps - 1)

NextFault ==
  \E t \in Tasks :
    writerLockStep(t) \/ writeStep(t) \/ indexStep(t) \/ trackerStep(t)

SpecFault == InitFault /\ [][NextFault]_vars

\* one writeModuleSkill or trackSkillAccess call while callers of other
\* processes create and remove the sentinels; every task that can take a
\* step eventually takes one, and time passes
InitLive ==
  InitWith(UsedDoc(None), {1}, {"write", "track"}, FALSE, {"d1"}, Names, 1)

NextLive ==
  \/ \E t \in Tasks : writerLockStep(t) \/ writeStep(t) \/ trackerStep(t)
  \/ \E l \in {ModulesLock, UsageLock} : otherCallerWrites(l)
  \/ \E l \in {ModulesLock, UsageLock} : otherCallerRemoves(l)
  \/ Tick

FairLive ==
  /\ WF_vars(Tick)
  /\ \A t \in Tasks :
       WF_vars(writerLockStep(t) \/ writeStep(t) \/ trackerStep(t))

SpecLive == InitLive /\ [][NextLive]_vars /\ FairLive

\* the calls of one process until it is killed inside a critical section,
\* then the calls of another process
InitOrphan ==
  InitWith(UsedDoc(1), {1}, {"write", "track", "index"}, FALSE, {"d1"},
           {<<"a">>}, MaxOps - 1)

NextOrphan ==
  \/ \E t \in Tasks :
       writerLockStep(t) \/ writeStep(t) \/ indexStep(t) \/ trackerStep(t)
  \/ \E t \in Tasks : killProcess(t)
  \/ Tick

SpecOrphan == InitOrphan /\ [][NextOrphan]_vars

\* trackSkillAccess calls of two processes on a filesystem that may fail,
\* while time passes
InitTrackFault ==
  InitWith(UsedDoc(0), {1, 3}, {"track"}, TRUE, {"d1"}, Names, MaxOps - 1)

SpecTrackFault == InitTrackFault /\ [][NextTrack]_vars

\* trackSkillAccess calls of one task, each awaited before the next, on a
\* document with or without frontmatter, usage block, counter, other keys
InitSeqTrack ==
  \E d \in {UsedDoc(c) : c \in {None} \cup 0..MaxCount}
           \cup {FmDoc, TaggedDoc, PlainDoc} :
    InitWith(d, {1}, {"track"}, FALSE, {"d1"}, Names, MaxOps)

SpecSeqTrack == InitSeqTrack /\ [][NextTrack]_vars

\* the cleanup command, run once and alone, on a store with one module
\* document of any age and use and with or without a per-project index
InitCleanup ==
  \E d \in StoredDocs(ScanTime), x \in {NoIndex, StoredIndex} :
    InitAt(ScanTime, d, x, {}, {"cleanup"}, FALSE, {"d1"}, Names, 1)

NextCleanup == cleanupStep

SpecCleanup == InitCleanup /\ [][NextCleanup]_vars

\* the cleanup command beside writeModuleSkill and trackSkillAccess calls
\* of one task on an old document, used or not, with a per-project index;
\* the calls take less than a day, so no age changes while they run
InitCleanupMixed ==
  \E c \in {0, MaxCount + 1} :
    InitAt(ScanTime,
           [UsedDoc(c) EXCEPT !.created_at = ScanTime - MaxDays * DAY_MS,
                              !.last_accessed = ScanTime - MaxDays * DAY_MS],
           StoredIndex, {1}, {"write", "track", "cleanup"}, FALSE, {"d1"},
           Names, MaxOps - 1)

NextCleanupMixed ==
  \/ \E t \in Tasks : writerLockStep(t) \/ writeStep(t) \/ trackerStep(t)
  \/ cleanupStep

SpecCleanupMixed == InitCleanupMixed /\ [][NextCleanupMixed]_vars

\* the cleanup command beside updateSkillIndex and updateGlobalIndex calls
\* of one task for another module, on an old unused document and an index
InitCleanupIndex ==
  InitAt(ScanTime,
         [UsedDoc(0) EXCEPT !.created_at = ScanTime - MaxDays * DAY_MS,
                            !.last_accessed = ScanTime - MaxDays * DAY_MS],
         StoredIndex, {1}, {"index", "cleanup"}, FALSE, {"d1", "d2"},
         {OtherModule}, MaxOps - 1)

NextCleanupIndex ==
  \/ \E t \in Tasks : writerLockStep(t) \/ indexStep(t)
  \/ cleanupStep

SpecCleanupIndex == InitCleanupIndex /\ [][NextCleanupIndex]_vars

\* the documents of a store scanned twice: young or old, used or not
ScannedDocs ==
  {[UsedDoc(c) EXCEPT !.created_at = ca, !.last_accessed = la] :
     c \in {0, MaxCount + 1},
     ca \in {ScanTime - MaxDays * DAY_MS, ScanTime},
     la \in {ScanTime - MaxDays * DAY_MS, ScanTime}} \cup {FmDoc}

\* two runs of the cleanup command, each a preview or a confirm run, on a
\* file system whose operations can fail
InitCleanupFault ==
  \E d \in ScannedDocs, x \in {NoIndex, StoredIndex} :
    InitAt(ScanTime, d, x, {}, {"cleanup"}, TRUE, {"d1"}, Names, 2)

SpecCleanupFault == InitCleanupFault /\ [][NextCleanup]_vars

\* toSkillName applied to every module path of the model
InitName ==
  /\ InitIdle
  /\ \E p \in ModulePaths : calc = [stage |-> "path", p |-> p, out |-> <<>>]

NextName == nameCall

SpecName == InitName /\ [][NextName]_vars

\* shouldTrackPath applied to every path of the model
InitTrackPath ==
  /\ InitIdle
  /\ \E p \in FilePaths : calc = [stage |-> "file", p |-> p, out |-> FALSE]

NextTrackPath == trackPathCall

SpecTrackPath == InitTrackPath /\ [][NextTrackPath]_vars

\* a module document written for every module path of the model and read
\* afterwards
InitPath ==
  /\ InitIdle
  /\ \E m \in ModulePaths :
       calc = [stage |-> "module", m |-> m, returned |-> <<>>, files |-> {},
               out |-> FALSE]

NextPath == pathWrite \/ pathTest

SpecPath == InitPath /\ [][NextPath]_vars

\* the status query on every store of up to MaxFiles files under every
\* configured threshold
InitStatus ==
  /\ InitIdle
  /\ \E n \in 0..MaxFiles :
       \E fs \in [1..n -> StatusFiles], c \in ConfiguredCounts :
         calc = [stage |-> "status", files |-> fs, configured |-> c,
                 moduleSkills |-> <<>>, i |-> 0, stats |-> NoStats]

NextStatus == statusStart \/ statusRead \/ statusReturn

SpecStatus == InitStatus /\ [][NextStatus]_vars

\* the hooks on the events and messages of one session
InitSession ==
  /\ InitFiles(TickMs, NoDoc, NoIndex, {}, {}, FALSE, {}, {}, 0, {})
  /\ calc = IdleCalc
  /\ \E auto \in BOOLEAN : ext = NewSession(auto)

NextSession ==
  \/ sessionIdle \/ idleSchedule \/ idleHint
  \/ timerFires \/ extractionSummary \/ extractionEnds \/ callbackEnds
  \/ toolExecuteAfter \/ toolTracked
  \/ chatMessage \/ chatCancelled \/ chatInjected
  \/ sessionDeletedInjector \/ sessionDeletedExtractor

SpecSession == InitSession /\ [][NextSession]_vars

\* the hooks when every extractKnowledge at work comes to its end: each of
\* its awaits returns or throws, the prompt after 120 s at the latest
FairSession == WF_vars(extractionEnds)

\* the contents the preprocessor collects, by length: empty, one
\* character, one token, over a token, several tokens; any budget
InitSummary ==
  /\ InitIdle
  /\ \E sections \in [Sections -> {0, 1, 4, 9, 24}], maxTokens \in 0..MaxBudget :
       calc = [stage |-> "sections", sections |-> sections,
               maxTokens |-> maxTokens,
               out |-> [sections |-> sections, totalTokens |-> 0,
                        truncated |-> FALSE]]

NextSummary == summaryCall

SpecSummary == InitSummary /\ [][NextSummary]_vars

\* files given relative to the project root or absolute, under the root
\* or outside it, below directories that are modules, excluded, '.' or '..'
InitModulePath ==
  /\ InitIdle
  /\ \E root \in {<<"r">>, <<"r", "p">>}, abs \in BOOLEAN,
        base \in {1, 2},
        dirs \in UNION {[1..n -> {"src", "auth", "node_modules", ".vscode",
                                  ".", ".."}] : n \in 0..MaxDepth} :
       calc = [stage |-> "file", root |-> root,
               file |-> [abs |-> abs,
                         segs |-> (IF ~abs THEN <<>>
                                   ELSE IF base = 1 THEN root ELSE <<"q">>)
                                  \o dirs \o <<"f.ts">>],
               out |-> <<>>]

NextModulePath == modulePathCall

SpecModulePath == InitModulePath /\ [][NextModulePath]_vars

\* the session of a project with autoExtract on: idle events and tool
\* calls, the timers and the extractions they start
InitExtract ==
  /\ InitFiles(TickMs, NoDoc, NoIndex, {}, {}, FALSE, {}, {}, 0, {})
  /\ calc = IdleCalc
  /\ ext = [NewSession(TRUE) EXCEPT !.budget = MaxEvents - 1]

NextExtract ==
  \/ sessionIdle \/ idleSchedule
  \/ timerFires \/ extractionSummary \/ extractionEnds \/ callbackEnds
  \/ toolExecuteAfter \/ toolTracked

SpecExtract == InitExtract /\ [][NextExtract]_vars /\ FairSession

\* every record of the supported shape, formatted, matched and parsed
InitCodec ==
  /\ InitIdle
  /\ \E r \in SkillFrontmatter, b \in BodyTexts :
       calc = [stage |-> "record", r |-> r, body |-> b, text |-> <<>>,
               raw |-> <<>>, found |-> FALSE, out |-> EmptyParse]

NextCodec == codecFormat \/ codecMatch \/ codecParse

SpecCodec == InitCodec /\ [][NextCodec]_vars

\* ================================================================ claims
Quiescent == \A t \in Tasks : task[t].pc = "idle"

\* the stored access_count, absent read as 0
accessCountOf(d) ==
  IF d.exists /\ d.fm /\ d.usage /\ d.access_count # None
  THEN d.access_count ELSE 0

inTrackerCritical(t) == task[t].pc \in {"t_read", "t_write"}

inWriterCritical(t) ==
  task[t].pc \in {"w_exists", "w_read", "w_write", "i_exists", "i_read", "i_write"}

\* the sentinel a call creates
sentinelOf(tk) == IF tk.op = "track" THEN UsageLock ELSE lockFileOf(tk)

\* C1: once N concurrent trackSkillAccess calls on an existing document with
\* frontmatter have all returned, none of them with a lock timeout, the
\* document's access_count is its initial value plus N.
C1_NoLostUpdate ==
  (Quiescent /\ hist.failed = 0)
    => accessCountOf(doc) = accessCountOf(hist.doc0) + hist.tracks

\* C2: at most one caller at a time is between a successful acquireLock of
\* the Knowledge Writer and its releaseLock, for each sentinel path.
C2_WriterLockMutex ==
  \A l \in LockFiles :
    Cardinality({t \in Tasks : inWriterCritical(t) /\ lockFileOf(task[t]) = l}) <= 1

\* C3: at most one caller at a time holds the Usage Tracker's lock: the
\* re-read of the sentinel detects every lost race.
C3_TrackerLockMutex ==
  Cardinality({t \in Tasks : inTrackerCritical(t)}) <= 1

\* C4: the stored access_count (absent read as 0) never decreases, whatever
\* writeModuleSkill and trackSkillAccess calls are made on the document.
C4_AccessCountMonotone ==
  [][accessCountOf(doc') >= accessCountOf(doc)]_vars

\* C5: sequential writeModuleSkill and trackSkillAccess calls never change
\* created_at from the value the first writeModuleSkill wrote, and each
\* writeModuleSkill sets last_updated to a time within that call.
C5_CreatedAtImmutable ==
  (hist.writes >= 1 /\ doc.exists)
    => /\ doc.created_at = hist.firstCreated
       /\ doc.last_updated = hist.lastWrite.last_updated
       /\ hist.lastWriteStart <= doc.last_updated
       /\ doc.last_updated <= now

\* C6: when concurrent writeModuleSkill calls for one module have all
\* completed, the body is the one of the writer that finished the
\* read-modify-write of its critical section last and created_at is the
\* earliest created_at any writer wrote.
C6_ConcurrentWritersKeepEarliest ==
  (Quiescent /\ hist.failed = 0 /\ hist.writes >= 2)
    => /\ doc.body = hist.lastBody
       /\ doc.created_at = hist.minCreated

\* C7: a writeModuleSkill and a trackSkillAccess on one document leave the
\* result of some serial order: the body and last_updated of the last
\* writeModuleSkill are never replaced by the copy trackSkillAccess read
\* before that write.
C7_WriteAndTrackSerial ==
  (Quiescent /\ hist.failed = 0 /\ hist.writes >= 1)
    => /\ doc.body = hist.lastWrite.body
       /\ doc.last_updated = hist.lastWrite.last_updated

otherEntries(es, n) == SelectSeq(es, LAMBDA e : e.name # n)

\* C8: an index update for name n leaves every entry whose name differs from
\* n as it was, in the same relative order, also when n is a proper prefix
\* of another entry's name.
C8_ReplacementScoped ==
  [][\A t \in Tasks, k \in IndexKinds :
       (task[t].pc = "i_write" /\ task[t].kind = k /\ index'[k] # index[k])
         => otherEntries(index'[k].entries, task[t].entry.name)
              = otherEntries(index[k].entries, task[t].entry.name)]_vars

entriesNamed(es, n) == SelectSeq(es, LAMBDA e : e.name = n)

\* C9: after sequential index updates from an absent index, the index holds
\* exactly one entry for each name that was passed, the one of the most
\* recent call for that name, and none for any other name.
C9_OneEntryPerName ==
  Quiescent =>
    \A k \in IndexKinds, n \in Names :
      entriesNamed(index[k].entries, n) =
        IF hist.passed[k][n] = NoEntry THEN <<>> ELSE <<hist.passed[k][n]>>

\* C10 as stated: when an operation that acquired a lock has returned or
\* thrown, the sentinel it created no longer exists.
C10_SentinelRemoved ==
  \A t \in Tasks :
    (task[t].pc = "idle" /\ task[t].acq)
      => ~(lock[sentinelOf(task[t])].exists /\ lock[sentinelOf(task[t])].by = t)

\* C10 amended: an operation that acquired a lock runs releaseLock on every
\* exit path before it returns or throws, and the sentinel it created is
\* gone afterwards unless the removal itself failed (logged, not raised).
C10_ReleaseAttempted ==
  \A t \in Tasks :
    (task[t].pc = "idle" /\ task[t].acq)
      => /\ task[t].rel # "none"
         /\ (lock[sentinelOf(task[t])].exists /\ lock[sentinelOf(task[t])].by = t)
              => task[t].rel = "failed"

\* an I/O failure inside a critical section, and the early return of
\* trackSkillAccess without frontmatter, each followed by the removal
C10_Witness ==
  /\ \E t \in Tasks :
       /\ task[t].pc = "idle" /\ task[t].acq /\ task[t].op = "write"
       /\ task[t].res = "ioerror" /\ task[t].rel = "removed"
       /\ ~lock[ModulesLock].exists
  /\ \E t \in Tasks :
       /\ task[t].pc = "idle" /\ task[t].acq /\ task[t].op = "track"
       /\ task[t].res = "noop" /\ task[t].rel = "removed"
       /\ ~lock[UsageLock].exists

\* a call whose timeout falls inside the time the clock of the model covers
clockCovers(t) == task[t].start + timeoutMs < Horizon

inAcquire(t) ==
  task[t].pc \in {"k_check", "k_write", "u_check", "u_write", "u_still", "u_verify"}

\* C11: every acquireLock call, of the Knowledge Writer and of the Usage
\* Tracker, eventually returns a handle or fails with the lock-timeout
\* error, whatever the callers of other processes do to the sentinel.
C11_AcquireTerminates ==
  \A t \in Tasks : (inAcquire(t) /\ clockCovers(t)) ~> ~inAcquire(t)

\* the same for the Knowledge Writer's acquireLock alone
C11_WriterAcquireTerminates ==
  \A t \in Tasks :
    (inAcquire(t) /\ clockCovers(t) /\ task[t].op = "write") ~> ~inAcquire(t)

\* the sentinel that the killed holder left behind, "" when nothing was killed
orphaned ==
  IF \E u \in Tasks : task[u].pc = "dead" /\ task[u].acq
  THEN sentinelOf(task[CHOOSE u \in Tasks : task[u].pc = "dead" /\ task[u].acq])
  ELSE ""

\* the calls made after the kill on the resource of the orphaned sentinel
blockedCall(t) ==
  /\ task[t].pc # "dead"
  /\ task[t].op # "none"
  /\ sentinelOf(task[t]) = orphaned

\* C12: after a holder was killed inside its critical section, the sentinel
\* stays as the holder wrote it, no later acquireLock on it succeeds, and
\* every later call on that resource that has ended ended with the
\* lock-timeout error without writing its target.
C12_OrphanBlocks ==
  orphaned # "" =>
    /\ lock[orphaned].exists
    /\ task[lock[orphaned].by].pc = "dead"
    /\ \A t \in Tasks :
         blockedCall(t) =>
           /\ ~task[t].acq
           /\ ~task[t].wrote
           /\ task[t].pc \in {"idle", "k_check", "u_check"}
           /\ (task[t].pc = "idle" /\ (task[t].op = "track" => doc.exists))
                => task[t].res = "timeout"

\* a later writeModuleSkill or index update has timed out on the sentinel
\* of the killed holder
C12_Witness ==
  /\ orphaned # ""
  /\ \E t \in Tasks :
       /\ blockedCall(t) /\ task[t].pc = "idle" /\ task[t].res = "timeout"
       /\ task[t].op \in {"write", "index"}

\* the step in which the trackSkillAccess call of task t ends
trackEnds(t) ==
  task[t].pc # "idle" /\ task'[t].pc = "idle" /\ task'[t].op = "track"

\* C13: a trackSkillAccess call never raises, whatever failed inside it;
\* one that ends on a lock timeout or a failed read has not written the
\* document, and one that ends on a lock timeout has run no releaseLock
\* and ends without touching the sentinel.
C13_TrackNeverRaises ==
  [][\A t \in Tasks :
       trackEnds(t) =>
         /\ ~task'[t].raised
         /\ task'[t].res \in {"timeout", "readerror"} => ~task'[t].wrote
         /\ task'[t].res = "timeout"
              => task'[t].rel = "none" /\ ~task'[t].acq /\ lock' = lock]_vars

\* a call has ended on the lock timeout while the holder of another process
\* is still in its critical section, its sentinel in place
C13_Witness ==
  \E t, u \in Tasks :
    /\ task[t].pc = "idle" /\ task[t].op = "track" /\ task[t].res = "timeout"
    /\ ~task[t].raised
    /\ inTrackerCritical(u) /\ Pid(u) # Pid(t)
    /\ lock[UsageLock].exists /\ lock[UsageLock].by = u

\* C14: after N trackSkillAccess calls on a document with frontmatter, each
\* awaited before the next, access_count is the initial count plus N, an
\* absent usage block or counter counting as 0.
C14_SequentialCount ==
  (Quiescent /\ hasFrontmatter(hist.doc0))
    => /\ hist.tracks = 0 => doc = hist.doc0
       /\ hist.tracks > 0 => doc.usage /\ doc.access_count # None
       /\ accessCountOf(doc) = accessCountOf(hist.doc0) + hist.tracks

\* three calls in a row on a document that had no counter
C14_Witness ==
  /\ Quiescent /\ hist.tracks = MaxOps
  /\ hist.doc0.fm /\ hist.doc0.access_count = None
  /\ doc.access_count = MaxOps

\* the step in which the trackSkillAccess call of task t writes the document
trackWrites(t) == task[t].pc = "t_write" /\ task'[t].wrote

\* C15: a successful trackSkillAccess leaves name, description,
\* usage.created_at, usage.last_updated, every other frontmatter key and the
\* body as they were.
C15_TrackPreservesFields ==
  [][\A t \in Tasks :
       trackWrites(t) =>
         /\ doc'.name = doc.name
         /\ doc'.description = doc.description
         /\ doc'.created_at = doc.created_at
         /\ doc'.last_updated = doc.last_updated
         /\ doc'.extra = doc.extra
         /\ doc'.body = doc.body]_vars

\* the same without the other frontmatter keys
C15_TrackPreservesWrittenFields ==
  [][\A t \in Tasks :
       trackWrites(t) =>
         /\ doc'.name = doc.name
         /\ doc'.description = doc.description
         /\ doc'.created_at = doc.created_at
         /\ doc'.last_updated = doc.last_updated
         /\ doc'.body = doc.body]_vars

\* the step in which task t calls trackSkillAccess
trackStarts(t) ==
  /\ left' # left
  /\ task[t].pc = "idle" /\ task'[t].op = "track"
  /\ task'[t] # task[t] \/ task' = task

\* C16: trackSkillAccess on a path where no document exists returns at once
\* and normally; it takes no lock and creates or changes no file.
C16_MissingDocNoop ==
  [][\A t \in Tasks :
       (trackStarts(t) /\ ~doc.exists) =>
         /\ task'[t].pc = "idle" /\ task'[t].res = "noop"
         /\ ~task'[t].raised /\ ~task'[t].acq
         /\ doc' = doc /\ lock' = lock /\ index' = index]_vars

\* a call has returned from a path without a document, no sentinel around
C16_Witness ==
  /\ ~doc.exists
  /\ \A l \in LockFiles : ~lock[l].exists
  /\ \E t \in Tasks :
       /\ task[t].pc = "idle" /\ task[t].op = "track"
       /\ task[t].res = "noop" /\ ~task[t].acq

\* C17: trackSkillAccess on a document without a frontmatter block leaves
\* the content as it is, raises nothing, and has removed the .usage-lock
\* sentinel it acquired when it returns.
C17_NoFrontmatterNoop ==
  hist.doc0 = PlainDoc =>
    /\ doc = PlainDoc
    /\ \A t \in Tasks :
         (task[t].pc = "idle" /\ task[t].op = "track") =>
           /\ task[t].res = "noop" /\ ~task[t].raised
           /\ task[t].acq /\ task[t].rel = "removed"
           /\ ~lock[UsageLock].exists

\* a call on the document without frontmatter has returned
C17_Witness ==
  /\ hist.doc0 = PlainDoc /\ doc = PlainDoc
  /\ ~lock[UsageLock].exists
  /\ \E t \in Tasks :
       /\ task[t].pc = "idle" /\ task[t].op = "track" /\ task[t].acq
       /\ task[t].res = "noop" /\ task[t].rel = "removed"

\* C18: a document freshly created by writeModuleSkill has created_at and
\* last_updated and no access_count; after one trackSkillAccess on it, it
\* has access_count 1 and a last_accessed later than created_at, created_at
\* and last_updated still there. (Writes made while the clock of the model
\* still runs.)
C18_WriteThenRead ==
  (hist.doc0 = NoDoc /\ hist.writes = 1) =>
    /\ hist.tracks = 0 =>
         /\ doc.usage /\ doc.created_at # None /\ doc.last_updated # None
         /\ doc.access_count = None /\ doc.last_accessed = None
    /\ (hist.tracks = 1 /\ Quiescent /\ hist.firstCreated < Horizon) =>
         /\ doc.access_count = 1
         /\ doc.last_accessed > doc.created_at
         /\ doc.created_at # None /\ doc.created_at = hist.lastWrite.created_at
         /\ doc.last_updated # None
         /\ doc.last_updated = hist.lastWrite.last_updated

\* the write and one access have both returned
C18_Witness ==
  /\ hist.doc0 = NoDoc /\ hist.writes = 1 /\ hist.tracks = 1 /\ Quiescent
  /\ hist.firstCreated < Horizon
  /\ doc.access_count = 1 /\ doc.last_accessed > doc.created_at

\* the scan of the cleanup command has looked at a document
scanned == cleanup.seen.exists

\* the scan has listed the document it looked at
listed == cleanup.eligible # <<>>

\* a document whose usage block has all of created_at, last_accessed and
\* access_count
fullUsage(d) ==
  /\ d.fm /\ d.usage
  /\ d.created_at # None /\ d.last_accessed # None /\ d.access_count # None

\* C19: findEligibleSkills returns a document with usage metadata exactly
\* when floor((now - created_at) / day) >= minAgeDays and access_count <
\* minAccessCount and floor((now - last_accessed) / day) >= maxInactiveDays;
\* age 95 / count 2 / inactive 95 is eligible under 60/5/60 and the same
\* with count 10 is not.
C19_EligibilityConjunctive ==
  /\ (scanned /\ fullUsage(cleanup.seen)) =>
       (listed <=>
          /\ (cleanup.now - cleanup.seen.created_at) \div DAY_MS
               >= cleanup.thresholds.minAgeDays
          /\ cleanup.seen.access_count < cleanup.thresholds.minAccessCount
          /\ (cleanup.now - cleanup.seen.last_accessed) \div DAY_MS
               >= cleanup.thresholds.maxInactiveDays)
  /\ isEligible(95, 2, 95, DefaultThresholds)
  /\ ~isEligible(95, 10, 95, DefaultThresholds)

\* a document a day and a half old, never read since, is listed by a scan
\* with thresholds 1 / 1 / 1
C19_Witness ==
  /\ scanned /\ fullUsage(cleanup.seen) /\ listed
  /\ cleanup.thresholds =
       [minAgeDays |-> 1, minAccessCount |-> 1, maxInactiveDays |-> 1]
  /\ cleanup.seen.created_at = cleanup.now - DAY_MS - DAY_MS \div 2
  /\ cleanup.res = "preview"

\* C20: a module document without a usage block, or without frontmatter, is
\* never returned by findEligibleSkills and never deleted by cleanup
\* confirm, whatever the thresholds.
C20_NoUsageNeverEligible ==
  ~(hist.doc0.fm /\ hist.doc0.usage) =>
    /\ ~listed
    /\ cleanup.deleted = <<>>
    /\ doc = hist.doc0

\* cleanup confirm with thresholds 0 / 1 / 0 has returned on a document
\* without a usage block
C20_Witness ==
  /\ hist.doc0 = FmDoc /\ doc = FmDoc
  /\ cleanup.pc = "idle" /\ cleanup.confirm /\ cleanup.res = "nothing"
  /\ cleanup.seen = FmDoc
  /\ cleanup.thresholds =
       [minAgeDays |-> 0, minAccessCount |-> 1, maxInactiveDays |-> 0]

\* a step of a cleanup run without confirm
previewStep == cleanup' # cleanup /\ ~cleanup'.confirm

\* a confirm run has read the store the last preview read, at the same
\* time and under the same thresholds
samePreview ==
  /\ cleanup.confirm /\ cleanup.pc \in {"c_unlink", "idle"}
  /\ cleanup.res \in {"none", "nothing"}
  /\ cleanup.files = 1
  /\ hist.preview.set
  /\ hist.preview.seen = cleanup.seen
  /\ hist.preview.thresholds = cleanup.thresholds
  /\ hist.preview.now = cleanup.now

confirmReturns ==
  /\ cleanup.pc # "idle" /\ cleanup'.pc = "idle"
  /\ cleanup'.confirm /\ cleanup'.res = "deleted"

\* the entries of an index without those of the deleted names
withoutNames(es, deleted) ==
  SelectSeq(es, LAMBDA e : \A i \in 1..Len(deleted) : deleted[i] # e.name)

\* the report of a confirm run names the document exactly when its unlink
\* succeeded
reportExact ==
  /\ Len(cleanup'.deleted) <= 1
  /\ cleanup'.deleted # <<>> <=>
       (hist.doc0.exists /\ ~doc'.exists
          /\ cleanup'.deleted = <<hist.doc0.name>>)

\* C22: a confirm run reports exactly the names whose deletion succeeded,
\* and the index of the project loses the entries of exactly those names
\* and keeps every entry of any other name.
C22_ConfirmExact ==
  [][confirmReturns =>
       /\ reportExact
       /\ index'["skill"].exists = index["skill"].exists
       /\ index'["skill"].entries =
            withoutNames(index["skill"].entries, cleanup'.deleted)]_vars

\* the part of C22 about the report alone
C22_ReportExact == [][confirmReturns => reportExact]_vars

\* the module for which the sentinel of the modules directory was written
lockedFor == task[lock[ModulesLock].by].skill.name

\* a writeModuleSkill call that finds the sentinel of a call for another
\* module
waitsForOther(t) ==
  /\ task[t].op = "write" /\ task[t].pc = "k_check"
  /\ lock[ModulesLock].exists
  /\ lockedFor # task[t].skill.name

\* C23: a writeModuleSkill call for one module never waits on a sentinel
\* written by a call for another module of the project, and never ends with
\* the lock timeout while every other call was for another module.
C23_ModulesIndependent ==
  \A t \in Tasks :
    /\ ~waitsForOther(t)
    /\ (task[t].op = "write" /\ task[t].res = "timeout") =>
         \E u \in Tasks \ {t} :
           task[u].op = "write" /\ task[u].skill.name = task[t].skill.name

\* the parsed record equals the record r on every field r defines, and
\* has a usage object exactly when r has one
sameRecord(r, p) ==
  /\ p.name = StringValue(r.name)
  /\ p.description = StringValue(r.description)
  /\ IF r.usage = <<>> THEN p.usage = NoValue
     ELSE p.usage = ObjectValue /\ p.children = r.usage[1]

\* C24: for every record of the supported shape, the text that
\* formatSkillWithFrontmatter makes of it has a frontmatter block and
\* parseFrontmatter reads from it a record equal on every field, with
\* access_count 0 kept and a usage object without children kept apart from
\* no usage object.
C24_RoundTrip ==
  calc.stage = "parsed" => calc.found /\ sameRecord(calc.r, calc.out)

\* a string that is not empty and has no blank at either end
trimmedText(v) == v # <<>> /\ trim(v) = v

\* the round trip of C24 for the records whose strings are not empty and
\* have no blank at either end
C24_RoundTripTrimmed ==
  ( /\ calc.stage = "parsed"
    /\ trimmedText(calc.r.name) /\ trimmedText(calc.r.description)
    /\ calc.r.usage # <<>> => calc.r.usage[1].created_at # <<<<>>>> ) =>
  calc.found /\ sameRecord(calc.r, calc.out)

\* what one character of a path becomes in the name: a hyphen for a
\* separator, its lower case for a letter, itself for a digit or a hyphen,
\* nothing otherwise
RECURSIVE charwise(_)
charwise(p) ==
  IF p = <<>> THEN <<>>
  ELSE (IF isSeparator(p[1]) THEN <<"-">>
        ELSE IF isNameChar(p[1]) THEN <<lowerOf(p[1])>> ELSE <<>>)
       \o charwise(Tail(p))

\* C25: toSkillName('.') is 'project-root'; for any other path the name is
\* the path with separators as hyphens, other characters outside
\* [a-z0-9-] removed, in lower case, cut to 64 characters: only lower-case
\* letters, digits and hyphens and at most 64 of them; 'src/auth' gives
\* 'src-auth' and 'src/main/services/config' 'src-main-services-config'.
C25_ToSkillName ==
  calc.stage = "named" =>
    /\ calc.p = <<".">> => calc.out = ProjectRoot
    /\ calc.p # <<".">> =>
         /\ Len(calc.out) <= 64
         /\ calc.out = SubSeq(charwise(calc.p), 1, Len(calc.out))
         /\ Len(calc.out) = 64 \/ calc.out = charwise(calc.p)
    /\ \A i \in 1..Len(calc.out) :
         isLower(calc.out[i]) \/ calc.out[i] \in Digits \/ calc.out[i] = "-"
    /\ calc.p = SrcAuth => calc.out = <<"s", "r", "c", "-", "a", "u", "t", "h">>
    /\ calc.p = SrcMainServicesConfig =>
         calc.out = <<"s", "r", "c", "-", "m", "a", "i", "n", "-", "s", "e",
                      "r", "v", "i", "c", "e", "s", "-", "c", "o", "n", "f",
                      "i", "g">>

\* a path longer than the limit with a separator, an upper-case letter and
\* a removed character has been named
C25_Witness ==
  /\ calc.stage = "named"
  /\ Len(calc.p) > 64 /\ Len(calc.out) = 64
  /\ \E i \in 1..Len(calc.p) : isSeparator(calc.p[i])

noSlash(w) == w # <<>> /\ \A i \in 1..Len(w) : w[i] # "/"

\* the path ends in .opencode/skills/<project>/modules/<name>.md with one
\* segment for the project and one for the name
endsInModuleDocument(p) ==
  \E lp \in 1..Len(p), ln \in 1..Len(p) :
    LET n == 10 + lp + ln
        tail == SubSeq(p, Len(p) - n + 1, Len(p))
        project == SubSeq(tail, 5, 4 + lp)
        name == SubSeq(tail, 8 + lp, 7 + lp + ln)
    IN /\ n <= Len(p)
       /\ noSlash(project) /\ noSlash(name)
       /\ tail = <<".opencode", "/", "skills", "/">> \o project
                   \o <<"/", "modules", "/">> \o name \o Md

endsWith(p, w) ==
  Len(w) <= Len(p) /\ SubSeq(p, Len(p) - Len(w) + 1, Len(p)) = w

contains(p, w) ==
  \E i \in 1..Len(p) : i + Len(w) - 1 <= Len(p) /\ SubSeq(p, i, i + Len(w) - 1) = w

derivedPath(m) ==
  RootDir \o <<"/", ".opencode", "/", "skills", "/">> \o ProjectName
    \o <<"/", "modules", "/">> \o toSkillName(m) \o <<".", "m", "d">>

pathAgrees ==
  /\ calc.returned = derivedPath(calc.m)
  /\ calc.returned \in calc.files
  /\ calc.out

\* C26: writeModuleSkill writes to and returns <root>/.opencode/skills/
\* <project>/modules/<toSkillName(m)>.md, the document is there afterwards,
\* and shouldTrackPath accepts that path.
C26_PathAccepted == calc.stage = "read" => pathAgrees

\* C26 for the module paths whose skill name is not empty
C26_PathAcceptedNamed ==
  (calc.stage = "read" /\ toSkillName(calc.m) # <<>>) => pathAgrees

\* the access counts of the module documents of a store, absent as 0
RECURSIVE countsOf(_)
countsOf(fs) ==
  IF fs = <<>> THEN <<>>
  ELSE (IF fs[1].kind = "module"
        THEN <<IF fs[1].access_count = None THEN 0 ELSE fs[1].access_count>>
        ELSE <<>>) \o countsOf(Tail(fs))

RECURSIVE sumOf(_)
sumOf(cs) == IF cs = <<>> THEN 0 ELSE cs[1] + sumOf(Tail(cs))

numberOf(cs, lo, hi) == Cardinality({i \in 1..Len(cs) : lo <= cs[i] /\ cs[i] < hi})

\* minAccessCount of the configuration, 5 when it has none
minAccessCountOf(configured) == IF configured = <<>> THEN 5 ELSE configured[1]

statsAgree(lowBelow) ==
  LET cs == countsOf(calc.files)
      st == calc.stats
  IN /\ st.totalSkills = Len(cs)
     /\ st.totalAccesses = sumOf(cs)
     /\ st.lowFrequencyCount = numberOf(cs, 0, lowBelow)
     /\ st.highUsageCount = numberOf(cs, 10, 1000)
     /\ st.mediumUsageCount = numberOf(cs, 5, 10)
     /\ st.lowUsageCount = numberOf(cs, 0, 5)
     /\ st.highUsageCount + st.mediumUsageCount + st.lowUsageCount
          = st.totalSkills
     /\ (cs = <<15, 7, 2>> /\ calc.configured = <<5>>) =>
          /\ st.totalAccesses = 24 /\ st.lowFrequencyCount = 1
          /\ st.highUsageCount = 1 /\ st.mediumUsageCount = 1
          /\ st.lowUsageCount = 1

\* C28: the status query reports the number of module documents (the index
\* is not counted), the sum of their access counts with absent as 0, the
\* number with a count below minAccessCount, and the numbers with counts of
\* at least 10, of 5 to 9 and below 5, which add up to the total; counts
\* 15, 7, 2 under minAccessCount 5 give 24, one low-frequency document and
\* 1/1/1.
C28_StatusAggregation ==
  calc.stage = "reported" => statsAgree(minAccessCountOf(calc.configured))

\* C28 with the threshold getUsageStats works with
C28_StatusAggregationDefaulted ==
  calc.stage = "reported" => statsAgree(calc.stats.minAccessThreshold)

\* the extractions that start in a step: callbacks that go to work
startedExtractions ==
  {c \in ext'.extracting \ ext.extracting : c.pc = "extract"}

\* C29: after a chat message for the session has been handled, no
\* extraction scheduled by a session.idle event from before that message
\* starts: an extraction that starts was scheduled by an event that came
\* after every chat message handled so far.
C29_ChatCancels ==
  [][\A c \in startedExtractions : c.epoch = ext.chats]_vars

\* C30: once session.deleted has been handled, the session has no entry in
\* the timer map, the tool-call map, the toast map or the injected set, and
\* no timer of the session fires.
C30_SessionTeardown ==
  [][ext'.deleted =>
       /\ ext'.timerMap = <<>>
       /\ ext'.toolCalls = None
       /\ ~ext'.toastShown
       /\ ~ext'.injected
       /\ ext.deleted => {c.id : c \in ext'.extracting}
                          \subseteq {c.id : c \in ext.extracting}]_vars

\* ------------------------------------------------ C31: the lock timeout
\* the calls that fail with the lock-timeout error in a step
timesOut(t) ==
  task[t].pc # "idle" /\ task'[t].pc = "idle" /\ task'[t].res = "timeout"

\* the sentinel the acquireLock of the call tests
sentinelTested(tk) == IF tk.op = "track" THEN UsageLock ELSE lockFileOf(tk)

\* C31: acquireLock fails with the lock-timeout error only when more than
\* timeoutMs have passed since the call began and it has just observed the
\* sentinel present: never while the sentinel is absent, and never for a
\* failure to create or read the sentinel.
C31_TimeoutOnlyContention ==
  [][\A t \in Tasks :
       timesOut(t) =>
         /\ TimedOut(t)
         /\ task[t].pc \in {"u_check", "k_check"}
         /\ lock[sentinelTested(task[t])].exists]_vars

\* the Knowledge Writer's half of C31
C31_WriterTimeoutOnlyContention ==
  [][\A t \in Tasks :
       (timesOut(t) /\ task[t].op # "track") =>
         /\ TimedOut(t)
         /\ task[t].pc = "k_check"
         /\ lock[lockFileOf(task[t])].exists]_vars

\* ------------------------------------- C32, C33: cleanup beside the calls
\* cleanup deletes the document in a step
cleanupDeletes == cleanup.pc = "c_unlink" /\ doc.exists /\ ~doc'.exists

\* C32: a document that cleanup deletes satisfies the eligibility predicate,
\* under the thresholds of the run, in the state right before the deletion.
C32_EligibleWhenDeleted ==
  [][cleanupDeletes => eligibleOf(doc, now, cleanup.thresholds) # <<>>]_vars

\* the document is created in a step by a writeModuleSkill that started
\* after the deletion
writtenAfresh ==
  \E t \in hist.fresh : task[t].pc = "w_write" /\ task'[t].pc # "w_write"

\* C33: once cleanup has deleted the document, it exists again only by the
\* write of a writeModuleSkill call that started after the deletion; a
\* trackSkillAccess that read it before does not create it again.
C33_StaysDeleted ==
  [][(hist.deleted /\ ~doc.exists /\ doc'.exists) => writtenAfresh]_vars

\* ------------------------------------------- C34: two writers of the index
\* both read-modify-write cycles on the per-project index have read it and
\* not yet written it
cyclesOverlap ==
  /\ cleanup.pc = "c_iwrite"
  /\ \E t \in Tasks : task[t].pc = "i_write" /\ task[t].kind = "skill"

\* every call has returned and the last cleanup run has deleted a document
settledAfterCleanup ==
  Quiescent /\ cleanup.pc = "idle" /\ cleanup.deleted # <<>>

\* the index when both have returned: the entry that updateSkillIndex
\* passed is there, no entry of a deleted name is
finalIndexKept ==
  (settledAfterCleanup /\ cleanup.res = "deleted" /\ hist.failed = 0) =>
    /\ \A n \in Names :
         hist.passed["skill"][n] # NoEntry =>
           entriesNamed(index["skill"].entries, n) = <<hist.passed["skill"][n]>>
    /\ \A i \in 1..Len(cleanup.deleted) :
         entriesNamed(index["skill"].entries, cleanup.deleted[i]) = <<>>

\* C34: the index rewrite of a cleanup confirm run and an updateSkillIndex
\* call on the same per-project index never overlap, and when both have
\* returned the index has the entry updateSkillIndex passed and no entry
\* for a name cleanup deleted.
C34_IndexUpdatesKept == ~cyclesOverlap /\ finalIndexKept

\* ------------------------------------------- C35: partial usage metadata
\* a usage block as formatSkillContent writes it and no trackSkillAccess
\* has changed it: created_at, no access_count, no last_accessed
neverAccessed(d) ==
  /\ d.fm /\ d.usage
  /\ d.created_at # None /\ d.access_count = None /\ d.last_accessed = None

\* whole days between a stamp and the scan
wholeDays(stamp, scan) == (scan - stamp) \div DAY_MS

maxOf(a, b) == IF a >= b THEN a ELSE b

\* the age, count and inactivity the claim gives a scanned document
claimedAge(d, scan) ==
  IF d.created_at = None THEN 0 ELSE wholeDays(d.created_at, scan)
claimedCount(d) == IF d.access_count = None THEN 0 ELSE d.access_count
claimedInactivity(d, scan) ==
  IF d.last_accessed = None THEN claimedAge(d, scan)
  ELSE wholeDays(d.last_accessed, scan)

\* C35: for a scanned document with a usage block, inactivity is measured
\* from created_at when last_accessed is absent, an absent access_count is
\* 0, an absent created_at gives age 0 (and inactivity 0 when last_accessed
\* is absent too); a document as writeModuleSkill writes it, never accessed,
\* is listed exactly when its age in whole days is >= max(minAgeDays,
\* maxInactiveDays) and minAccessCount > 0.
C35_PartialUsage ==
  /\ (scanned /\ cleanup.seen.fm /\ cleanup.seen.usage) =>
       LET d == cleanup.seen
           th == cleanup.thresholds
           age == claimedAge(d, cleanup.now)
           inactive == claimedInactivity(d, cleanup.now)
       IN /\ listed <=> /\ age >= th.minAgeDays
                        /\ claimedCount(d) < th.minAccessCount
                        /\ inactive >= th.maxInactiveDays
          /\ listed => /\ cleanup.eligible[1].ageDays = age
                       /\ cleanup.eligible[1].accessCount = claimedCount(d)
                       /\ cleanup.eligible[1].inactiveDays = inactive
          /\ neverAccessed(d) =>
               (listed <=> /\ age >= maxOf(th.minAgeDays, th.maxInactiveDays)
                           /\ th.minAccessCount > 0)
  /\ \A s \in Skills : neverAccessed(formatSkillContent(s, NoDoc, cleanup.now))

\* a never-accessed document a day and a half old is listed by a scan with
\* thresholds 1 / 1 / 1, with age 1, count 0 and inactivity 1
C35_Witness ==
  /\ scanned /\ neverAccessed(cleanup.seen) /\ listed
  /\ cleanup.thresholds =
       [minAgeDays |-> 1, minAccessCount |-> 1, maxInactiveDays |-> 1]
  /\ cleanup.seen.created_at = cleanup.now - DAY_MS - DAY_MS \div 2
  /\ cleanup.eligible[1].inactiveDays = 1
  /\ cleanup.pc = "idle"

\* a document without created_at and last_accessed is listed with age 0 and
\* inactivity 0
C35_WitnessNoCreated ==
  /\ scanned /\ cleanup.seen.usage /\ listed
  /\ cleanup.seen.created_at = None /\ cleanup.seen.last_accessed = None
  /\ cleanup.eligible[1].ageDays = 0 /\ cleanup.eligible[1].inactiveDays = 0

\* --------------------------------------------- C36: the debounce timers
\* the timers of the session that are set and have neither fired nor been
\* cleared
liveTimers == ext.pending

\* C36: the session has at most one live debounce timer, and the timer map
\* has an entry for the session exactly when it has one.
C36_OneLiveTimer ==
  /\ Cardinality(liveTimers) <= 1
  /\ ext.timerMap # <<>> <=> liveTimers # {}

\* the first half of C36 alone
C36_AtMostOneTimer == Cardinality(liveTimers) <= 1

\* the half of C36 that a chat message relies on: a live timer is the one
\* the map holds
C36_LiveTimerInMap ==
  \A t \in liveTimers : ext.timerMap = <<t.id>>

\* ------------------------------------------- C37: single-flight extraction
\* the extractKnowledge calls past the in-progress guard
atWork == {c \in ext.extracting : c.pc \in Working}

\* the calls that return the zero result at the guard in a step
skippedCalls ==
  {c \in ext'.extracting \ ext.extracting : c.res = "skipped"}

\* the calls that leave extractKnowledge in a step, by any exit
endedCalls ==
  {c \in atWork : \E d \in ext'.extracting : d.id = c.id /\ d.pc = "toast"}

\* at most one call is at work, and the flag is set exactly while one is
singleFlight ==
  /\ Cardinality(atWork) <= 1
  /\ ext.inProgress <=> atWork # {}

\* a call made while another is at work changes neither the flag nor the
\* tracked tool calls nor a file; a call that ends clears the flag
guardedStep ==
  /\ skippedCalls # {} =>
       /\ atWork # {}
       /\ ext'.inProgress /\ ext'.toolCalls = ext.toolCalls
       /\ UNCHANGED <<doc, sibling, index, lock>>
  /\ endedCalls # {} => ~ext'.inProgress

recordsRemoved ==
  /\ ext.toolCalls # None /\ ext.toolCalls > 0
  /\ ext'.toolCalls = None \/ ext'.toolCalls < ext.toolCalls

\* session.deleted is handled in the step
sessionDeletedStep == ext.deleting /\ ext'.deleted

\* an extraction that got to its end in the step had every record of the
\* map in its input
processedAll ==
  \E c \in atWork :
    /\ \E d \in ext'.extracting : d.id = c.id /\ d.res = "ok"
    /\ ~c.stale
    /\ c.seen = ext.toolCalls

\* C38: a tracked tool-call record leaves the map only when an extraction
\* that had it in its input has completed its write and its index update,
\* or when the session is deleted; a record added while the extraction
\* runs is not removed by its completion.
C38_RecordsProcessed ==
  [][recordsRemoved => (sessionDeletedStep \/ processedAll)]_vars

\* ------------------------------------------------ C39: the token budget
\* C39: the totalTokens that preprocessSessionSummary reports, the sum of
\* ceil(characters / 4) over the four returned sections, is <= maxTokens,
\* and the sections are returned untouched when their total is within the
\* budget.
C39_WithinBudget ==
  calc.stage = "summary" =>
    /\ calc.out.totalTokens <= calc.maxTokens
    /\ tokensOf(calc.sections) <= calc.maxTokens =>
         calc.out.sections = calc.sections /\ ~calc.out.truncated

\* what holds of C39: the budget is exceeded by the tokens of the mark at
\* most, and sections within the budget are returned untouched
C39_WithinBudgetAndMark ==
  calc.stage = "summary" =>
    /\ calc.out.totalTokens <= calc.maxTokens + estimateTokens(truncationMark)
    /\ tokensOf(calc.sections) <= calc.maxTokens =>
         calc.out.sections = calc.sections /\ ~calc.out.truncated

\* ------------------------------------------------- C40: module bucketing
\* the directory of the file, and its components below the project root
directoryOf(file, root) == dirname(resolve(root, file))
underRoot(file, root) == IsPrefix(root, directoryOf(file, root))
below(file, root) ==
  SubSeq(directoryOf(file, root), Len(root) + 1, Len(directoryOf(file, root)))

\* C40: getModulePath returns '.' for a file directly in the project root
\* or below an excluded first directory, the first directory for a file one
\* level down, the first two directories for a file further down; the
\* result is always '.' or a path of one or two components.
C40_ModuleBucketing ==
  calc.stage = "module" =>
    /\ underRoot(calc.file, calc.root) =>
         LET dirs == below(calc.file, calc.root)
         IN calc.out =
              IF dirs = <<>> THEN RootModule
              ELSE IF dirs[1] \in {"node_modules", "dist", ".git", ".vscode"}
                      \cup EXCLUDED_DIRS
              THEN RootModule
              ELSE IF Len(dirs) = 1 THEN <<dirs[1]>>
              ELSE <<dirs[1], dirs[2]>>
    /\ calc.out = RootModule \/ Len(calc.out) \in {1, 2}
    /\ \A i \in 1..Len(calc.out) : calc.out[i] # ""

\* a file three directories below the root is put in the module of the
\* first two, and a file below an excluded directory in the root module
C40_Witness ==
  /\ calc.stage = "module"
  /\ underRoot(calc.file, calc.root)
  /\ below(calc.file, calc.root) = <<"src", "auth", "src">>
  /\ calc.out = <<"src", "auth">>
  /\ calc.file.abs

C40_WitnessExcluded ==
  /\ calc.stage = "module"
  /\ underRoot(calc.file, calc.root)
  /\ below(calc.file, calc.root) = <<"node_modules", "src">>
  /\ calc.out = RootModule
====
